---- MODULE Spec2Model ----
(***************************************************************************)
(* Model of the analytical core of FanrenDashboard.tsx: the episode/table  *)
(* store fed by ingestFiles / ingestFileText, the pure analytics helpers   *)
(* computePeak and topKIntervals, the colour helpers, the comparison of    *)
(* distributions distCompareData, the episode selections with their        *)
(* effects, and the curve comparison with the generated report.            *)
(*                                                                         *)
(* JavaScript values are modelled as follows.                              *)
(*  - a cell of a parsed row is a record [t, n, s]: t is the typeof tag    *)
(*    ("number", "string", "null", "undefined"), n the numeric payload,    *)
(*    s the string payload;                                                *)
(*  - a plain object whose key order is observable through Object.keys is  *)
(*    a sequence of [k, v] pairs kept in OwnPropertyKeys order (canonical  *)
(*    array-index keys ascending, then the other keys in creation order);  *)
(*  - strings are TLA+ strings, taken apart with Len and SubSeq.           *)
(***************************************************************************)
EXTENDS Integers, Sequences, FiniteSets, TLC

VARIABLES
    store,      \* useState<Store>
    loading,    \* useState<{progress,label} | null>
    loadError,  \* useState<string | null>
    proc,       \* one record per ingestFiles call: its position and its lists
    peakIn,     \* input of computePeak: the curve rows
    peakOut,    \* result of computePeak
    topkIn,     \* input of topKIntervals: [rows, w, k]
    topkOut,    \* result of topKIntervals
    distIn,     \* input of distCompareData: [tables, eps, kind, topN]
    distOut,    \* result of distCompareData
    zipStart,   \* the store an archive upload started from
    activeEp,        \* useState<string | null>
    compareEps,      \* useState<string[]>
    distCompareEps,  \* useState<string[]>
    cmpIn,      \* what the curve comparison and the report read
    cmpOut      \* comparePeaks, computePeak per column and the report

vars == <<store, loading, loadError, proc, peakIn, peakOut, topkIn, topkOut,
          distIn, distOut, zipStart, activeEp, compareEps, distCompareEps,
          cmpIn, cmpOut>>

storeVars == <<store, loading, loadError, proc>>
peakVars == <<peakIn, peakOut>>
topkVars == <<topkIn, topkOut>>
distVars == <<distIn, distOut>>
uiVars == <<activeEp, compareEps, distCompareEps>>
cmpVars == <<cmpIn, cmpOut>>

(***************************************************************************)
(* Bounds                                                                  *)
(***************************************************************************)
\* number of ingestFiles calls in a session
MaxBatches == 2
\* number of files selected over all ingestFiles calls of a session
MaxFiles == 3
\* number of rows of a minute curve
MaxRows == 3
\* largest minute of a minute curve
MaxMinute == 3
\* number of episodes of the store a distribution comparison reads
MaxDistEps == 2

(***************************************************************************)
(* JavaScript values                                                       *)
(***************************************************************************)
Num(n) == [t |-> "number", n |-> n, s |-> ""]
Str(s) == [t |-> "string", n |-> 0, s |-> s]
Null == [t |-> "null", n |-> 0, s |-> ""]
Undefined == [t |-> "undefined", n |-> 0, s |-> ""]

\* the value null of a useState<... | null>
NULL == [isNull |-> TRUE]

DigitChars == "0123456789"
UpperChars == "ABCDEFGHIJKLMNOPQRSTUVWXYZ"
LowerChars == "abcdefghijklmnopqrstuvwxyz"

CharAt(s, p) == SubSeq(s, p, p)

IsDigit(c) == \E d \in 1..10 : CharAt(DigitChars, d) = c

DigitVal(c) == (CHOOSE d \in 1..10 : CharAt(DigitChars, d) = c) - 1

AllDigits(s) == \A p \in 1..Len(s) : IsDigit(CharAt(s, p))

RECURSIVE DecimalValue(_)
DecimalValue(s) ==
    IF Len(s) = 0 THEN 0
    ELSE 10 * DecimalValue(SubSeq(s, 1, Len(s) - 1)) + DigitVal(CharAt(s, Len(s)))

\* Number(x) for a string: the decimal value of a digit string, 0 for the
\* empty string, NaN (finite = FALSE) for anything else.
NumberOfString(s) ==
    IF AllDigits(s) THEN [finite |-> TRUE, n |-> DecimalValue(s)]
    ELSE [finite |-> FALSE, n |-> 0]

\* Number(x) on the episode strings of the files below, computed once
NumberOfEpisode == [s \in {"", "1", "7", "12", "01", "001"} |-> NumberOfString(s)]

RECURSIVE NatToString(_)
NatToString(n) ==
    IF n < 10 THEN CharAt(DigitChars, n + 1)
    ELSE NatToString(n \div 10) \o CharAt(DigitChars, (n % 10) + 1)

\* String(n) on the episode numbers of the files below, computed once
StringOfEpisode == [n \in 0..12 |-> NatToString(n)]

\* String(x)
String(x) ==
    CASE x.t = "number" -> IF x.n < 0 THEN "-" \o NatToString(0 - x.n)
                           ELSE IF x.n \in DOMAIN StringOfEpisode THEN StringOfEpisode[x.n]
                           ELSE NatToString(x.n)
      [] x.t = "string" -> x.s
      [] x.t = "null" -> "null"
      [] OTHER -> "undefined"

\* a ?? b
Coalesce(a, b) == IF a.t \in {"null", "undefined"} THEN b ELSE a

\* r[col] on a row (a record of cells): undefined when the column is absent
Get(r, col) == IF col \in DOMAIN r THEN r[col] ELSE Undefined

safeNumberFb(x, fallback) ==
    LET n == CASE x.t = "number" -> [finite |-> TRUE, n |-> x.n]
               [] x.t = "string" -> IF x.s \in DOMAIN NumberOfEpisode THEN NumberOfEpisode[x.s]
                                    ELSE NumberOfString(x.s)
               [] x.t = "null" -> [finite |-> TRUE, n |-> 0]
               [] OTHER -> [finite |-> FALSE, n |-> 0]
    IN  IF n.finite THEN n.n ELSE fallback

safeNumber(x) == safeNumberFb(x, 0)

RECURSIVE toLowerCase(_)
toLowerCase(s) ==
    IF Len(s) = 0 THEN ""
    ELSE LET c == CharAt(s, 1)
             lc == IF \E p \in 1..26 : CharAt(UpperChars, p) = c
                   THEN CharAt(LowerChars, CHOOSE p \in 1..26 : CharAt(UpperChars, p) = c)
                   ELSE c
         IN  lc \o toLowerCase(SubSeq(s, 2, Len(s)))

includes(s, pat) ==
    \E p \in 1..(Len(s) - Len(pat) + 1) : SubSeq(s, p, p + Len(pat) - 1) = pat

endsWith(s, suf) ==
    Len(s) >= Len(suf) /\ SubSeq(s, Len(s) - Len(suf) + 1, Len(s)) = suf

\* Array.prototype.sort with the comparator key(a) - key(b): a stable sort,
\* ascending by an integer key. The elements are records with a field key.
RECURSIVE InsertByKey(_, _)
InsertByKey(sorted, x) ==
    IF sorted = <<>> THEN <<x>>
    ELSE IF Head(sorted).key <= x.key
         THEN <<Head(sorted)>> \o InsertByKey(Tail(sorted), x)
         ELSE <<x>> \o sorted

RECURSIVE SortByKey(_)
SortByKey(seq) ==
    IF seq = <<>> THEN <<>>
    ELSE InsertByKey(SortByKey(SubSeq(seq, 1, Len(seq) - 1)), seq[Len(seq)])

Range(seq) == {seq[p] : p \in 1..Len(seq)}

\* seq.filter(pred), for the set keep of the elements that satisfy pred
RECURSIVE Filter(_, _)
Filter(seq, keep) ==
    IF seq = << >> THEN << >>
    ELSE (IF Head(seq) \in keep THEN <<Head(seq)>> ELSE << >>) \o Filter(Tail(seq), keep)

(***************************************************************************)
(* Plain objects with observable key order                                 *)
(***************************************************************************)
\* a canonical array index: "0", or a digit string without a leading zero
IsIndexKey(k) == Len(k) > 0 /\ AllDigits(k) /\ (k = "0" \/ CharAt(k, 1) # "0")

\* the episode strings that are canonical array indices, computed once
EpisodeIndexKeys == {s \in DOMAIN NumberOfEpisode : IsIndexKey(s)}

IsIndex(k) == IF k \in DOMAIN NumberOfEpisode THEN k \in EpisodeIndexKeys ELSE IsIndexKey(k)

\* the number a canonical array index stands for
IndexValue(k) == IF k \in DOMAIN NumberOfEpisode THEN NumberOfEpisode[k].n ELSE DecimalValue(k)

ObjKeys(o) == [p \in 1..Len(o) |-> o[p].k]

ObjHas(o, k) == \E p \in 1..Len(o) : o[p].k = k

ObjGet(o, k) == o[CHOOSE p \in 1..Len(o) : o[p].k = k].v

\* the mapping an object denotes, key order forgotten
ObjMap(o) == [k \in Range(ObjKeys(o)) |-> ObjGet(o, k)]

\* a slip of ObjSet: the spread of o is forgotten, { [k]: v }
ObjSetFresh(o, k, v) == <<[k |-> k, v |-> v]>>

\* { ...o, [k]: v }
ObjSet(o, k, v) ==
    IF ObjHas(o, k)
    THEN [p \in 1..Len(o) |-> IF o[p].k = k THEN [k |-> k, v |-> v] ELSE o[p]]
    ELSE IF IsIndex(k)
         THEN LET before == {p \in 1..Len(o) : IsIndex(o[p].k) /\ IndexValue(o[p].k) < IndexValue(k)}
                  nb == Cardinality(before)
              IN  SubSeq(o, 1, nb) \o <<[k |-> k, v |-> v]>> \o SubSeq(o, nb + 1, Len(o))
         ELSE Append(o, [k |-> k, v |-> v])

(***************************************************************************)
(* Analytics helpers                                                       *)
(***************************************************************************)
Max(a, b) == IF a >= b THEN a ELSE b
Min(a, b) == IF a <= b THEN a ELSE b

\* a slip of PeakLoop: >= instead of >, the last of several maxima wins
RECURSIVE PeakLoopLast(_, _, _)
PeakLoopLast(rows, seriesKey, best) ==
    IF rows = << >> THEN best
    ELSE LET r == Head(rows)
             m == safeNumber(Get(r, "minute"))
             v == safeNumber(Get(r, seriesKey))
         IN  PeakLoopLast(Tail(rows), seriesKey,
                          IF best.negInf \/ v >= best.bestVal
                          THEN [negInf |-> FALSE, bestVal |-> v, isNull |-> FALSE, bestMinute |-> m]
                          ELSE best)

\* the loop of computePeak; best is (bestMinute, bestVal), negInf standing for
\* bestVal = -Infinity and isNull for bestMinute = null
RECURSIVE PeakLoop(_, _, _)
PeakLoop(rows, seriesKey, best) ==
    IF rows = << >> THEN best
    ELSE LET r == Head(rows)
             m == safeNumber(Get(r, "minute"))
             v == safeNumber(Get(r, seriesKey))
         IN  PeakLoop(Tail(rows), seriesKey,
                      IF best.negInf \/ v > best.bestVal
                      THEN [negInf |-> FALSE, bestVal |-> v, isNull |-> FALSE, bestMinute |-> m]
                      ELSE best)

computePeak(curveRows, seriesKey) ==
    LET best == PeakLoop(curveRows, seriesKey,
                         [negInf |-> TRUE, bestVal |-> 0, isNull |-> TRUE, bestMinute |-> 0])
    IN  IF best.isNull \/ best.negInf \/ best.bestVal < 0 THEN NULL
        ELSE [minute |-> best.bestMinute, value |-> best.bestVal]

\* ps of topKIntervals: ps[i] of the code is PrefixSums(values)[i + 1]
RECURSIVE PrefixSums(_)
PrefixSums(values) ==
    IF values = << >> THEN <<0>>
    ELSE LET ps == PrefixSums(SubSeq(values, 1, Len(values) - 1))
         IN  Append(ps, ps[Len(ps)] + values[Len(values)])

\* a slip of WindowEnd: < instead of <=, the window is one minute short
RECURSIVE WindowEndShort(_, _, _)
WindowEndShort(minutes, j, endMinute) ==
    IF j + 1 <= Len(minutes) /\ minutes[j + 1] < endMinute
    THEN WindowEndShort(minutes, j + 1, endMinute)
    ELSE j

\* while (j + 1 < n && minutes[j + 1] <= endMinute) j++, indices from 1
RECURSIVE WindowEnd(_, _, _)
WindowEnd(minutes, j, endMinute) ==
    IF j + 1 <= Len(minutes) /\ minutes[j + 1] <= endMinute
    THEN WindowEnd(minutes, j + 1, endMinute)
    ELSE j

\* a slip of overlaps: < instead of <=, touching ranges pass
overlapsStrict(a, b) == Max(a[1], b[1]) < Min(a[2], b[2])

overlaps(a, b) == Max(a[1], b[1]) <= Min(a[2], b[2])

\* the selection loop of topKIntervals over the sorted candidates
RECURSIVE PickLoop(_, _, _, _)
PickLoop(candidates, kk, used, picked) ==
    IF candidates = << >> \/ Len(picked) >= kk THEN picked
    ELSE LET c == Head(candidates)
             range == <<c.i, c.j>>
         IN  IF \E u \in Range(used) : overlaps(u, range)
             THEN PickLoop(Tail(candidates), kk, used, picked)
             ELSE PickLoop(Tail(candidates), kk, Append(used, range),
                           Append(picked, [start |-> c.start, end |-> c.end, score |-> c.score]))

\* Math.max(1, Math.min(20, windowSize))
clampWindow(windowSize) == Max(1, Min(20, windowSize))

\* a slip of clampK: the upper limit is forgotten
clampKNoMax(k) == Max(1, k)

\* Math.max(1, Math.min(5, k))
clampK(k) == Max(1, Min(5, k))

\* the candidates of topKIntervals over the sorted minutes and their values
topKCandidates(minutes, values, w) ==
    LET ps == PrefixSums(values)
    IN  [i \in 1..Len(minutes) |->
            LET j == WindowEnd(minutes, i, minutes[i] + (w - 1))
            IN  [i |-> i, j |-> j, score |-> ps[j + 1] - ps[i],
                 start |-> minutes[i], end |-> minutes[j]]]

\* candidates.sort((a, b) => b.score - a.score) and the selection loop
topKPick(candidates, kk) ==
    LET byScore == SortByKey([p \in 1..Len(candidates) |->
                                [key |-> 0 - candidates[p].score, val |-> candidates[p]]])
    IN  PickLoop([p \in 1..Len(byScore) |-> byScore[p].val], kk, << >>, << >>)

\* topKIntervals over the rows sorted by minute
topKSorted(sortedRows, seriesKey, windowSize, k) ==
    topKPick(topKCandidates([p \in 1..Len(sortedRows) |-> safeNumber(Get(sortedRows[p].val, "minute"))],
                            [p \in 1..Len(sortedRows) |-> safeNumber(Get(sortedRows[p].val, seriesKey))],
                            clampWindow(windowSize)),
             clampK(k))

\* topKIntervals up to its return: the picked intervals in the order of
\* their selection
topKPicked(curveRows, seriesKey, windowSize, k) ==
    IF curveRows = << >> THEN << >>
    ELSE topKSorted(SortByKey([p \in 1..Len(curveRows) |->
                        [key |-> safeNumber(Get(curveRows[p], "minute")), val |-> curveRows[p]]]),
                    seriesKey, windowSize, k)

\* a slip of topKIntervals: the final sort by start is forgotten
topKIntervalsUnsorted(curveRows, seriesKey, windowSize, k) ==
    topKPicked(curveRows, seriesKey, windowSize, k)

\* return picked.sort((a, b) => a.start - b.start)
topKIntervals(curveRows, seriesKey, windowSize, k) ==
    LET picked == topKPicked(curveRows, seriesKey, windowSize, k)
        byStart == SortByKey([p \in 1..Len(picked) |-> [key |-> picked[p].start, val |-> picked[p]]])
    IN  [p \in 1..Len(byStart) |-> byStart[p].val]

(***************************************************************************)
(* File name classification                                                *)
(***************************************************************************)
\* length of the digit run of s that starts at position p
RECURSIVE DigitRun(_, _)
DigitRun(s, p) ==
    IF p <= Len(s) /\ IsDigit(CharAt(s, p)) THEN 1 + DigitRun(s, p + 1) ELSE 0

IsSep(c) == c = "-" \/ c = "_"

\* EP_RE = /ep(\d+)/i matches at position p
EpReAt(s, p) ==
    /\ p + 2 <= Len(s)
    /\ toLowerCase(SubSeq(s, p, p + 1)) = "ep"
    /\ DigitRun(s, p + 2) >= 1

\* /(?:^|[-_])(\d{2,3})(?:[-_])/ matches with its digit group starting at
\* position d and being n digits long
FallbackAt(s, d, n) ==
    /\ d = 1 \/ IsSep(CharAt(s, d - 1))
    /\ DigitRun(s, d) >= n
    /\ d + n <= Len(s)
    /\ IsSep(CharAt(s, d + n))

\* where the fallback expression starts matching when its digit group starts
\* at d: at d itself through the alternative ^, at d - 1 through [-_]
FallbackStart(s, d) == IF d > 1 /\ IsSep(CharAt(s, d - 1)) THEN d - 1 ELSE d

parseEpisodeFromName(name) ==
    IF \E p \in 1..Len(name) : EpReAt(name, p)
    THEN LET p == CHOOSE q \in 1..Len(name) :
                      EpReAt(name, q) /\ \A r \in 1..(q - 1) : ~EpReAt(name, r)
         IN  Str(SubSeq(name, p + 2, p + 1 + DigitRun(name, p + 2)))
    ELSE LET hits == {d \in 1..Len(name) : \E n \in {2, 3} : FallbackAt(name, d, n)}
         IN  IF hits = {} THEN Null
             ELSE LET d == CHOOSE e \in hits :
                               \A f \in hits : FallbackStart(name, e) <= FallbackStart(name, f)
                      n == IF FallbackAt(name, d, 3) THEN 3 ELSE 2
                  IN  Str(SubSeq(name, d, d + n - 1))

TABLE_KEYS ==
    [ DANMU_EMO |-> "danmaku_emo_dist",
      COM_ROOT_EMO |-> "comment_root_emo_dist",
      COM_REPLY_EMO |-> "comment_reply_emo_dist",
      DANMU_FUNC |-> "danmaku_func_dist",
      COM_ALL_FUNC |-> "comment_func_dist",
      COM_ROOT_FUNC |-> "comment_root_func_dist",
      COM_REPLY_FUNC |-> "comment_reply_func_dist",
      DANMU_MIN_EMO |-> "danmaku_minute_emo_curve",
      DANMU_MIN_FUNC |-> "danmaku_minute_func_curve",
      BURST_2S |-> "danmaku_burst_2s",
      TOP_TERMS_DANMU |-> "top_terms_danmaku",
      TOP_TERMS_COMMENT |-> "top_terms_comment",
      DANMU_MODEL_EMO |-> "danmaku_model_emo_dist",
      COM_ROOT_MODEL_EMO |-> "comment_root_model_emo_dist",
      COM_REPLY_MODEL_EMO |-> "comment_reply_model_emo_dist",
      MODEL_USAGE |-> "model_usage",
      CLEANING_REPORT |-> "cleaning_report" ]

\* the per-episode kinds in the order detectTableKey tests them
CsvKindOrder ==
    << TABLE_KEYS.DANMU_EMO, TABLE_KEYS.COM_ROOT_EMO, TABLE_KEYS.COM_REPLY_EMO,
       TABLE_KEYS.DANMU_MODEL_EMO, TABLE_KEYS.COM_ROOT_MODEL_EMO, TABLE_KEYS.COM_REPLY_MODEL_EMO,
       TABLE_KEYS.MODEL_USAGE, TABLE_KEYS.DANMU_FUNC, TABLE_KEYS.COM_ALL_FUNC,
       TABLE_KEYS.COM_ROOT_FUNC, TABLE_KEYS.COM_REPLY_FUNC, TABLE_KEYS.DANMU_MIN_EMO,
       TABLE_KEYS.DANMU_MIN_FUNC, TABLE_KEYS.BURST_2S, TABLE_KEYS.TOP_TERMS_DANMU,
       TABLE_KEYS.TOP_TERMS_COMMENT, TABLE_KEYS.CLEANING_REPORT >>

\* the result null of detectTableKey
NoTable == [found |-> FALSE, key |-> "", ep |-> Undefined]

detectTableKey(filename) ==
    LET lower == toLowerCase(filename)
        ep == Coalesce(parseEpisodeFromName(lower), Undefined)
    IN  IF includes(lower, "episode_stats") /\ endsWith(lower, ".csv")
        THEN [found |-> TRUE, key |-> "episode_stats", ep |-> Undefined]
        ELSE IF includes(lower, "danmaku_basic_stats") /\ endsWith(lower, ".json")
        THEN [found |-> TRUE, key |-> "danmaku_basic_stats", ep |-> ep]
        ELSE LET hits == {q \in 1..Len(CsvKindOrder) :
                              includes(lower, CsvKindOrder[q]) /\ endsWith(lower, ".csv")}
             IN  IF hits = {} THEN NoTable
                 ELSE [found |-> TRUE,
                       key |-> CsvKindOrder[CHOOSE q \in hits : \A r \in hits : q <= r],
                       ep |-> ep]

(***************************************************************************)
(* Parsing collaborators: the texts of the model and what they parse to    *)
(***************************************************************************)
\* Papa.parse(text, {header, dynamicTyping, skipEmptyLines}): the rows of a
\* CSV text. With dynamicTyping an empty field is null and a numeric field,
\* leading zeros included, is a number; a column the header lacks is absent.
parseCsv(text) ==
    CASE text = "emo,ratio\nlaugh,60\nneg,40" ->
            << [emo |-> Str("laugh"), ratio |-> Num(60)], [emo |-> Str("neg"), ratio |-> Num(40)] >>
      [] text = "emo,ratio\npraise,100" ->
            << [emo |-> Str("praise"), ratio |-> Num(100)] >>
      [] text = "episode_id,episode,danmu_total\n12,,900\n,7,500\n,,0" ->
            << [episode_id |-> Num(12), episode |-> Null, danmu_total |-> Num(900)],
               [episode_id |-> Null, episode |-> Num(7), danmu_total |-> Num(500)],
               [episode_id |-> Null, episode |-> Null, danmu_total |-> Num(0)] >>
      [] text = "episode_id,danmu_total\n01,300" ->
            << [episode_id |-> Num(1), danmu_total |-> Num(300)] >>
      [] OTHER -> << >>

\* JSON.parse(text): threw = TRUE stands for the SyntaxError
JSONparse(text) ==
    CASE text = "{\"danmu_total\":900}" -> [threw |-> FALSE, obj |-> [danmu_total |-> Num(900)]]
      [] text = "{\"danmu_total\":300}" -> [threw |-> FALSE, obj |-> [danmu_total |-> Num(300)]]
      [] OTHER -> [threw |-> TRUE, obj |-> [message |-> Str("Unexpected token")]]

(***************************************************************************)
(* The files a user can select                                             *)
(***************************************************************************)
File(name, size, text) == [name |-> name, size |-> size, type |-> "", text |-> text]

CsvEmoA == "emo,ratio\nlaugh,60\nneg,40"
CsvEmoB == "emo,ratio\npraise,100"
CsvStatsA == "episode_id,episode,danmu_total\n12,,900\n,7,500\n,,0"
CsvStatsB == "episode_id,danmu_total\n01,300"
JsonA == "{\"danmu_total\":900}"
JsonBad == "{\"danmu_total\":"

SelectableFiles ==
    { File("ep01_danmaku_emo_dist.csv", 27, CsvEmoA),
      File("EP001_danmaku_emo_dist.csv", 27, CsvEmoA),
      File("danmaku_basic_stats_ep12.json", 15, JsonBad),
      File("episode_stats.csv", 52, CsvStatsA),
      File("episode_stats.csv", 29, CsvStatsB),
      File("pack.zip", 400, "PK:pack"),
      File("broken.zip", 3, "PK?") }

\* two more archives, selected only where one archive upload is looked at:
\* one with an entry that fails to parse between two that parse, one with
\* an archive among its entries
ArchiveOnlyFiles ==
    { File("mixed.zip", 300, "PK:mixed"),
      File("outer.zip", 700, "PK:outer") }

KnownFiles == SelectableFiles \cup ArchiveOnlyFiles

\* JSZip.loadAsync(buf), then Object.values(zip.files): the entries of the
\* archive in archive order; threw = TRUE when the bytes are no archive
JSZipLoad(text) ==
    IF text = "PK:pack"
    THEN [threw |-> FALSE,
          files |-> << [name |-> "tables/", dir |-> TRUE, text |-> ""],
                       [name |-> "tables/readme.md", dir |-> FALSE, text |-> "hello"],
                       [name |-> "tables/notes.csv", dir |-> FALSE, text |-> CsvEmoA],
                       [name |-> "tables/danmaku_emo_dist.csv", dir |-> FALSE, text |-> CsvEmoA],
                       [name |-> "tables/danmaku_basic_stats.json", dir |-> FALSE, text |-> JsonBad],
                       [name |-> "tables/ep01_danmaku_emo_dist.csv", dir |-> FALSE, text |-> CsvEmoB],
                       [name |-> "tables/ep01_comment_func_dist.csv", dir |-> FALSE, text |-> CsvEmoB],
                       [name |-> "stats/12_danmaku_basic_stats.json", dir |-> FALSE, text |-> JsonA] >>,
          message |-> Str("")]
    ELSE IF text = "PK:mixed"
    THEN [threw |-> FALSE,
          files |-> << [name |-> "a/ep01_danmaku_emo_dist.csv", dir |-> FALSE, text |-> CsvEmoB],
                       [name |-> "a/danmaku_basic_stats_ep12.json", dir |-> FALSE, text |-> JsonBad],
                       [name |-> "a/episode_stats.csv", dir |-> FALSE, text |-> CsvStatsA] >>,
          message |-> Str("")]
    ELSE IF text = "PK:outer"
    THEN [threw |-> FALSE,
          files |-> << [name |-> "inner/", dir |-> TRUE, text |-> ""],
                       [name |-> "inner/pack.zip", dir |-> FALSE, text |-> "PK:pack"],
                       [name |-> "inner/episode_stats.csv", dir |-> FALSE, text |-> CsvStatsB] >>,
          message |-> Str("")]
    ELSE [threw |-> TRUE, files |-> << >>, message |-> Str("Corrupted zip")]

\* e.name.split("/").pop() || e.name
BaseName(name) ==
    LET slashes == {p \in 1..Len(name) : CharAt(name, p) = "/"}
        last == IF slashes = {} THEN 0 ELSE CHOOSE p \in slashes : \A q \in slashes : q <= p
        tail == SubSeq(name, last + 1, Len(name))
    IN  IF tail = "" THEN name ELSE tail

\* the file names ingestFileText can be called with
KnownNames ==
    {f.name : f \in KnownFiles}
    \cup UNION {{BaseName(e.name) : e \in Range(JSZipLoad(f.text).files)} : f \in KnownFiles}

\* e.name.split("/").pop() || e.name on the entry names, computed once
BaseNameOf ==
    [name \in UNION {{e.name : e \in Range(JSZipLoad(f.text).files)} : f \in KnownFiles} |->
        BaseName(name)]

\* detectTableKey on the known names, computed once
Detected == [name \in KnownNames |-> detectTableKey(name)]

\* the non-empty file lists a user can still select when room files are left
FileLists(room) == UNION {[1..n -> SelectableFiles] : n \in 1..room}

(***************************************************************************)
(* The store                                                               *)
(***************************************************************************)
\* the initial Store of useState<Store>
EmptyStore ==
    [ episodes |-> << >>,
      episodeStats |-> [set |-> FALSE, rows |-> << >>],
      basicStatsByEp |-> << >>,
      tablesByEp |-> << >>,
      loadedFiles |-> << >> ]

\* Array.from(new Set(seq)): first occurrences, in order
RECURSIVE Dedup(_)
Dedup(seq) ==
    IF seq = << >> THEN << >>
    ELSE LET init == Dedup(SubSeq(seq, 1, Len(seq) - 1))
             x == seq[Len(seq)]
         IN  IF x \in Range(init) THEN init ELSE Append(init, x)

\* the episode strings of the rows of the scalar-stats table, in row order,
\* the empty ones left out
RECURSIVE StatsEpisodes(_)
StatsEpisodes(rows) ==
    IF rows = << >> THEN << >>
    ELSE LET r == Head(rows)
             ep == String(Coalesce(Get(r, "episode_id"), Coalesce(Get(r, "episode"), Str(""))))
         IN  (IF ep # "" THEN <<ep>> ELSE << >>) \o StatsEpisodes(Tail(rows))

\* a slip of mergeEpisodes: the fallback column "episode" is forgotten
mergeEpisodesIdOnly(tablesByEp, basicStatsByEp, episodeStats) ==
    LET rows == IF episodeStats.set THEN episodeStats.rows ELSE << >>
        withId == Filter(rows, {r \in Range(rows) : Get(r, "episode_id").t \notin {"null", "undefined"}})
        eps == Dedup(ObjKeys(tablesByEp) \o ObjKeys(basicStatsByEp) \o StatsEpisodes(withId))
        keyed == [p \in 1..Len(eps) |-> [key |-> safeNumber(Str(eps[p])), val |-> eps[p]]]
        sorted == SortByKey(keyed)
    IN  [p \in 1..Len(sorted) |-> sorted[p].val]

\* a slip of mergeEpisodes: the identifiers are compared by their first
\* character, as strings are, instead of by their number
mergeEpisodesLexical(tablesByEp, basicStatsByEp, episodeStats) ==
    LET eps == Dedup(ObjKeys(tablesByEp) \o ObjKeys(basicStatsByEp)
                     \o StatsEpisodes(IF episodeStats.set THEN episodeStats.rows ELSE << >>))
        keyed == [p \in 1..Len(eps) |-> [key |-> DigitVal(CharAt(eps[p], 1)), val |-> eps[p]]]
        sorted == SortByKey(keyed)
    IN  [p \in 1..Len(sorted) |-> sorted[p].val]

mergeEpisodes(tablesByEp, basicStatsByEp, episodeStats) ==
    LET eps == Dedup(ObjKeys(tablesByEp) \o ObjKeys(basicStatsByEp)
                     \o StatsEpisodes(IF episodeStats.set THEN episodeStats.rows ELSE << >>))
        keyed == [p \in 1..Len(eps) |-> [key |-> safeNumber(Str(eps[p])), val |-> eps[p]]]
        sorted == SortByKey(keyed)
    IN  [p \in 1..Len(sorted) |-> sorted[p].val]

\* The three branches of ingestFileText applied to the store prev. Each gives
\* the store after its setStore, or threw = TRUE when the call rejects before
\* it reaches setStore (the store is then prev).

\* a slip of ingestEpisodeStats: the rows are merged into the table
ingestEpisodeStatsMerge(prev, text) ==
    LET rows == prev.episodeStats.rows \o parseCsv(text)
        stats == [set |-> TRUE, rows |-> rows]
        eps == mergeEpisodes(prev.tablesByEp, prev.basicStatsByEp, stats)
    IN  [threw |-> FALSE, store |-> [prev EXCEPT !.episodeStats = stats, !.episodes = eps]]

\* the branch detected.key === "episode_stats"
ingestEpisodeStats(prev, text) ==
    LET rows == parseCsv(text)
        stats == [set |-> TRUE, rows |-> rows]
        eps == mergeEpisodes(prev.tablesByEp, prev.basicStatsByEp, stats)
    IN  [threw |-> FALSE, store |-> [prev EXCEPT !.episodeStats = stats, !.episodes = eps]]

\* the branch detected.key === "danmaku_basic_stats", past its test of ep
ingestBasicStats(prev, ep, text) ==
    LET parsed == JSONparse(text)
        basicStatsByEp == ObjSet(prev.basicStatsByEp, ep, parsed.obj)
        episodes == mergeEpisodes(prev.tablesByEp, basicStatsByEp, prev.episodeStats)
    IN  IF parsed.threw THEN [threw |-> TRUE, store |-> prev]
        ELSE [threw |-> FALSE,
              store |-> [prev EXCEPT !.basicStatsByEp = basicStatsByEp, !.episodes = episodes]]

\* a slip of ingestTable: the rows are appended to the rows of the slot
ingestTableAppend(prev, ep, key, text) ==
    LET cur == IF ObjHas(prev.tablesByEp, ep) THEN ObjGet(prev.tablesByEp, ep) ELSE << >>
        old == IF ObjHas(cur, key) THEN ObjGet(cur, key) ELSE << >>
        nextTablesByEp == ObjSet(prev.tablesByEp, ep, ObjSet(cur, key, old \o parseCsv(text)))
        episodes == mergeEpisodes(nextTablesByEp, prev.basicStatsByEp, prev.episodeStats)
    IN  [threw |-> FALSE, store |-> [prev EXCEPT !.tablesByEp = nextTablesByEp, !.episodes = episodes]]

\* the last branch (a per-episode table), past its test of ep
ingestTable(prev, ep, key, text) ==
    LET rows == parseCsv(text)
        cur == IF ObjHas(prev.tablesByEp, ep) THEN ObjGet(prev.tablesByEp, ep) ELSE << >>
        nextTablesByEp == ObjSet(prev.tablesByEp, ep, ObjSet(cur, key, rows))
        episodes == mergeEpisodes(nextTablesByEp, prev.basicStatsByEp, prev.episodeStats)
    IN  [threw |-> FALSE, store |-> [prev EXCEPT !.tablesByEp = nextTablesByEp, !.episodes = episodes]]

\* a slip of ingestFileText: the basic-stats branch parses before it tests ep
ingestFileTextParseFirst(prev, name, text) ==
    LET detected == Detected[name]
    IN  IF ~detected.found THEN [threw |-> FALSE, store |-> prev]
        ELSE IF detected.key = "episode_stats" THEN ingestEpisodeStats(prev, text)
        ELSE IF detected.key = "danmaku_basic_stats"
        THEN IF JSONparse(text).threw THEN [threw |-> TRUE, store |-> prev]
             ELSE IF detected.ep.t # "string" THEN [threw |-> FALSE, store |-> prev]
             ELSE ingestBasicStats(prev, detected.ep.s, text)
        ELSE IF detected.ep.t # "string" THEN [threw |-> FALSE, store |-> prev]
        ELSE ingestTable(prev, detected.ep.s, detected.key, text)

ingestFileText(prev, name, text) ==
    LET detected == Detected[name]
    IN  IF ~detected.found THEN [threw |-> FALSE, store |-> prev]
        ELSE IF detected.key = "episode_stats" THEN ingestEpisodeStats(prev, text)
        ELSE IF detected.key = "danmaku_basic_stats"
        THEN IF detected.ep.t # "string" THEN [threw |-> FALSE, store |-> prev]
             ELSE ingestBasicStats(prev, detected.ep.s, text)
        ELSE IF detected.ep.t # "string" THEN [threw |-> FALSE, store |-> prev]
        ELSE ingestTable(prev, detected.ep.s, detected.key, text)

(***************************************************************************)
(* ingestFiles                                                             *)
(***************************************************************************)
\* f.name.toLowerCase().endsWith(".zip"), computed once for the known names
ZipNames == {name \in KnownNames : endsWith(toLowerCase(name), ".zip")}

IsZipName(name) == name \in ZipNames

\* the entry names the test of line 518 lets through, computed once
TableEntryNames ==
    {name \in UNION {{e.name : e \in Range(JSZipLoad(f.text).files)} : f \in KnownFiles} :
        LET low == toLowerCase(BaseName(name))
        IN  endsWith(low, ".csv") \/ endsWith(low, ".json")}

IsTableEntry(e) == e.name \in TableEntryNames

\* the first index >= i of an entry the entries loop does not skip,
\* Len(entries) + 1 when there is none
RECURSIVE NextEntry(_, _)
NextEntry(entries, i) ==
    IF i > Len(entries) \/ IsTableEntry(entries[i]) THEN i ELSE NextEntry(entries, i + 1)

\* Math.round((i / Math.max(1, n)) * scale) + base, i counted from 0
Progress(i, n, scale, base) ==
    LET m == IF n >= 1 THEN n ELSE 1
    IN  ((2 * i * scale + m) \div (2 * m)) + base

IdleProc ==
    [pc |-> "idle", zipFiles |-> << >>, normalFiles |-> << >>, zi |-> 1, entries |-> << >>, i |-> 1]

\* a slip of AtEntry: the search for the next entry starts one index late
AtEntrySkipsOne(p, entries, i) ==
    LET j == NextEntry(entries, i + 1)
    IN  IF j <= Len(entries) THEN [p EXCEPT !.pc = "entry", !.entries = entries, !.i = j]
        ELSE IF p.zi < Len(p.zipFiles) THEN [p EXCEPT !.pc = "zip", !.zi = p.zi + 1, !.entries = << >>, !.i = 1]
        ELSE IF p.normalFiles # << >> THEN [p EXCEPT !.pc = "normal", !.entries = << >>, !.i = 1]
        ELSE [p EXCEPT !.pc = "finally", !.entries = << >>, !.i = 1]

\* where the call p continues once the entries loop stands at index i
AtEntry(p, entries, i) ==
    LET j == NextEntry(entries, i)
    IN  IF j <= Len(entries) THEN [p EXCEPT !.pc = "entry", !.entries = entries, !.i = j]
        ELSE IF p.zi < Len(p.zipFiles) THEN [p EXCEPT !.pc = "zip", !.zi = p.zi + 1, !.entries = << >>, !.i = 1]
        ELSE IF p.normalFiles # << >> THEN [p EXCEPT !.pc = "normal", !.entries = << >>, !.i = 1]
        ELSE [p EXCEPT !.pc = "finally", !.entries = << >>, !.i = 1]

\* a slip of Caught: the error is caught inside the loop, which goes on
CaughtContinue(b, message) ==
    /\ loadError' = [isNull |-> FALSE, msg |-> String(message)]
    /\ loading' = NULL
    /\ proc' = [proc EXCEPT ![b] =
                  IF proc[b].pc = "normal" /\ proc[b].i < Len(proc[b].normalFiles)
                  THEN [proc[b] EXCEPT !.i = proc[b].i + 1]
                  ELSE [proc[b] EXCEPT !.pc = "finally"]]
    /\ UNCHANGED store

\* catch (err) { setLoadError(msg) } finally { setLoading(null) }
Caught(b, message) ==
    /\ loadError' = [isNull |-> FALSE,
                     msg |-> IF message.t = "string" /\ message.s # "" THEN String(message)
                             ELSE "parse failed, check the CSV/JSON format"]
    /\ loading' = NULL
    /\ proc' = [proc EXCEPT ![b].pc = "done"]
    /\ UNCHANGED store

Running == {b \in 1..MaxBatches : proc[b].pc \notin {"idle", "done"}}

\* the last setLoading before the call p waits for its next file: the call
\* labels the archive or file it is about to read, and sets nothing between
\* its last file and its finally block
LoadingAt(p, old) ==
    CASE p.pc = "zip" -> [progress |-> 5, label |-> "unzip " \o p.zipFiles[p.zi].name]
      [] p.pc = "entry" -> [progress |-> Progress(p.i - 1, Len(p.entries), 90, 5),
                            label |-> "parse " \o BaseNameOf[p.entries[p.i].name]]
      [] p.pc = "normal" -> [progress |-> Progress(p.i - 1, Len(p.normalFiles), 80, 10),
                             label |-> "parse " \o p.normalFiles[p.i].name]
      [] OTHER -> old

\* a slip of IngestFilesStart: the plain files are kept in reverse order
IngestFilesStartReversed(b, list) ==
    /\ UNCHANGED <<peakVars, topkVars, distVars, zipStart, uiVars, cmpVars>>
    /\ proc[b].pc = "idle"
    /\ \A c \in 1..(b - 1) : proc[c].pc # "idle"
    /\ Len(list) <= MaxFiles - Len(store.loadedFiles)
    /\ loadError' = NULL
    /\ LET meta == [q \in 1..Len(list) |-> [name |-> list[q].name, size |-> list[q].size, type |-> list[q].type]]
           zipFiles == Filter(list, {f \in Range(list) : IsZipName(f.name)})
           plain == Filter(list, {f \in Range(list) : ~IsZipName(f.name)})
           normalFiles == [q \in 1..Len(plain) |-> plain[Len(plain) + 1 - q]]
       IN  /\ store' = [store EXCEPT !.loadedFiles = store.loadedFiles \o meta]
           /\ proc' = [proc EXCEPT ![b] = [pc |-> IF zipFiles # << >> THEN "zip" ELSE "normal",
                                           zipFiles |-> zipFiles, normalFiles |-> normalFiles,
                                           zi |-> 1, entries |-> << >>, i |-> 1]]
    /\ loading' = LoadingAt(proc'[b], loading)

\* ingestFiles(files) up to its first await: the start, and the setLoading
\* of the first archive or file
IngestFilesStart(b, list) ==
    /\ UNCHANGED <<peakVars, topkVars, distVars, zipStart, uiVars, cmpVars>>
    /\ proc[b].pc = "idle"
    /\ \A c \in 1..(b - 1) : proc[c].pc # "idle"
    /\ Len(list) <= MaxFiles - Len(store.loadedFiles)
    /\ loadError' = NULL
    /\ LET meta == [q \in 1..Len(list) |-> [name |-> list[q].name, size |-> list[q].size, type |-> list[q].type]]
           zipFiles == Filter(list, {f \in Range(list) : IsZipName(f.name)})
           normalFiles == Filter(list, {f \in Range(list) : ~IsZipName(f.name)})
       IN  /\ store' = [store EXCEPT !.loadedFiles = store.loadedFiles \o meta]
           /\ proc' = [proc EXCEPT ![b] = [pc |-> IF zipFiles # << >> THEN "zip" ELSE "normal",
                                           zipFiles |-> zipFiles, normalFiles |-> normalFiles,
                                           zi |-> 1, entries |-> << >>, i |-> 1]]
    /\ loading' = LoadingAt(proc'[b], loading)

\* an archive is opened; the call goes on to the setLoading of what it
\* reads next
ZipOpen(b) ==
    /\ UNCHANGED <<peakVars, topkVars, distVars, zipStart, uiVars, cmpVars>>
    /\ proc[b].pc = "zip"
    /\ LET zf == proc[b].zipFiles[proc[b].zi]
           zip == JSZipLoad(zf.text)
           entries == Filter(zip.files, {e \in Range(zip.files) : ~e.dir})
       IN  IF zip.threw THEN Caught(b, zip.message)
           ELSE /\ proc' = [proc EXCEPT ![b] = AtEntry(proc[b], entries, 1)]
                /\ loading' = LoadingAt(proc'[b], loading)
                /\ UNCHANGED <<store, loadError>>

\* an entry that is not skipped is read and ingested; the call goes on to
\* the setLoading of what it reads next
ZipEntry(b) ==
    /\ UNCHANGED <<peakVars, topkVars, distVars, zipStart, uiVars, cmpVars>>
    /\ proc[b].pc = "entry"
    /\ LET e == proc[b].entries[proc[b].i]
           nm == BaseNameOf[e.name]
           res == ingestFileText(store, nm, e.text)
       IN  IF res.threw THEN Caught(b, JSONparse(e.text).obj.message)
           ELSE /\ store' = res.store
                /\ proc' = [proc EXCEPT ![b] = AtEntry(proc[b], proc[b].entries, proc[b].i + 1)]
                /\ loading' = LoadingAt(proc'[b], loading)
                /\ UNCHANGED loadError

\* a plain file is read and ingested; the call goes on to the setLoading of
\* the next plain file
NormalFile(b) ==
    /\ UNCHANGED <<peakVars, topkVars, distVars, zipStart, uiVars, cmpVars>>
    /\ proc[b].pc = "normal"
    /\ LET f == proc[b].normalFiles[proc[b].i]
           res == ingestFileText(store, f.name, f.text)
       IN  IF res.threw THEN Caught(b, JSONparse(f.text).obj.message)
           ELSE /\ store' = res.store
                /\ proc' = [proc EXCEPT ![b] =
                              IF proc[b].i < Len(proc[b].normalFiles)
                              THEN [proc[b] EXCEPT !.i = proc[b].i + 1]
                              ELSE [proc[b] EXCEPT !.pc = "finally", !.i = 1]]
                /\ loading' = LoadingAt(proc'[b], loading)
                /\ UNCHANGED loadError

\* the finally block after the loops ran to their end
Finish(b) ==
    /\ UNCHANGED <<peakVars, topkVars, distVars, zipStart, uiVars, cmpVars>>
    /\ proc[b].pc = "finally"
    /\ loading' = NULL
    /\ proc' = [proc EXCEPT ![b].pc = "done"]
    /\ UNCHANGED <<store, loadError>>

\* ingestFiles([f]) for one plain file f, run to its end on the store prev
ingestOneFile(prev, f) ==
    LET meta == [name |-> f.name, size |-> f.size, type |-> f.type]
        logged == [prev EXCEPT !.loadedFiles = prev.loadedFiles \o <<meta>>]
    IN  ingestFileText(logged, f.name, f.text).store

\* the result of an analytics call that has not run yet
NotRun == [ran |-> FALSE, res |-> NULL]

\* the input of distCompareData while no comparison is looked at
NoDistInput == [tables |-> << >>, eps |-> << >>, kind |-> "", topN |-> 0]

\* what the curve comparison reads while no comparison is looked at
NoCmpInput ==
    [tables |-> << >>, eps |-> << >>, active |-> Null, compareMode |-> FALSE,
     markPeak |-> TRUE, markIntervals |-> TRUE]

Init ==
    /\ store = EmptyStore
    /\ loading = NULL
    /\ loadError = NULL
    /\ proc = [b \in 1..MaxBatches |-> IdleProc]
    /\ peakIn = << >>
    /\ peakOut = NotRun
    /\ topkIn = [rows |-> << >>, w |-> 0, k |-> 0]
    /\ topkOut = NotRun
    /\ distIn = NoDistInput
    /\ distOut = NotRun
    /\ zipStart = EmptyStore
    /\ activeEp = Null
    /\ compareEps = << >>
    /\ distCompareEps = << >>
    /\ cmpIn = NoCmpInput
    /\ cmpOut = NotRun

Next ==
    \/ \E b \in 1..MaxBatches : \E list \in FileLists(MaxFiles - Len(store.loadedFiles)) :
          IngestFilesStart(b, list)
    \/ \E b \in 1..MaxBatches : ZipOpen(b)
    \/ \E b \in 1..MaxBatches : ZipEntry(b)
    \/ \E b \in 1..MaxBatches : NormalFile(b)
    \/ \E b \in 1..MaxBatches : Finish(b)

Spec == Init /\ [][Next]_vars

(***************************************************************************)
(* computePeak on bounded curves                                           *)
(***************************************************************************)
\* the values a curve cell takes: numbers, a missing column, a text
PeakValues == {Num(0 - 1), Num(0), Num(3), Num(5), Num(9), Undefined, Str("n/a")}

PeakRows == {[minute |-> Num(m), v |-> x] : m \in 1..MaxMinute, x \in PeakValues}

PeakSeries == UNION {[1..n -> PeakRows] : n \in 0..MaxRows}

InitPeak ==
    /\ store = EmptyStore
    /\ loading = NULL
    /\ loadError = NULL
    /\ proc = [b \in 1..MaxBatches |-> IdleProc]
    /\ peakIn \in PeakSeries
    /\ peakOut = NotRun
    /\ topkIn = [rows |-> << >>, w |-> 0, k |-> 0]
    /\ topkOut = NotRun
    /\ distIn = NoDistInput
    /\ distOut = NotRun
    /\ zipStart = EmptyStore
    /\ activeEp = Null
    /\ compareEps = << >>
    /\ distCompareEps = << >>
    /\ cmpIn = NoCmpInput
    /\ cmpOut = NotRun

ComputePeak ==
    /\ ~peakOut.ran
    /\ peakOut' = [ran |-> TRUE, res |-> computePeak(peakIn, "v")]
    /\ UNCHANGED <<storeVars, peakIn, topkVars, distVars, zipStart, uiVars, cmpVars>>

NextPeak == ComputePeak

SpecPeak == InitPeak /\ [][NextPeak]_vars

(***************************************************************************)
(* topKIntervals on bounded curves                                         *)
(***************************************************************************)
TopKValues == {Num(0 - 1), Num(1), Num(2)}

TopKRows == {[minute |-> Num(m), v |-> x] : m \in 1..MaxMinute, x \in TopKValues}

TopKSeries == UNION {[1..n -> TopKRows] : n \in 0..MaxRows}

\* window sizes and k: negative, 0, inside and above the clamps [1, 20] and
\* [1, 5]
Windows == {0 - 1, 0, 2, 25}
Ks == {0 - 1, 0, 2, 6}

\* the minutes of curves with more rows than the limit of k and a span
\* beyond the limit of the window
LongMinutes == {1, 20, 22, 50, 80, 110, 140}

\* one row of value 1 per minute of S, in minute order
RECURSIVE AscendingRows(_)
AscendingRows(S) ==
    IF S = {} THEN << >>
    ELSE LET m == CHOOSE x \in S : \A y \in S : x <= y
         IN  <<[minute |-> Num(m), v |-> Num(1)]>> \o AscendingRows(S \ {m})

LongSeries == {AscendingRows(S) : S \in SUBSET LongMinutes}

InitTopK ==
    /\ store = EmptyStore
    /\ loading = NULL
    /\ loadError = NULL
    /\ proc = [b \in 1..MaxBatches |-> IdleProc]
    /\ peakIn = << >>
    /\ peakOut = NotRun
    /\ topkIn \in [rows : TopKSeries \cup LongSeries, w : Windows, k : Ks]
    /\ topkOut = NotRun
    /\ distIn = NoDistInput
    /\ distOut = NotRun
    /\ zipStart = EmptyStore
    /\ activeEp = Null
    /\ compareEps = << >>
    /\ distCompareEps = << >>
    /\ cmpIn = NoCmpInput
    /\ cmpOut = NotRun

RunTopK ==
    /\ ~topkOut.ran
    /\ topkOut' = [ran |-> TRUE, res |-> topKIntervals(topkIn.rows, "v", topkIn.w, topkIn.k)]
    /\ UNCHANGED <<storeVars, peakVars, topkIn, distVars, zipStart, uiVars, cmpVars>>

NextTopK == RunTopK

SpecTopK == InitTopK /\ [][NextTopK]_vars

(***************************************************************************)
(* Vocabulary of the store properties                                      *)
(***************************************************************************)
KeySet(o) == Range(ObjKeys(o))

\* the non-empty embedded episode values of the rows of the scalar-stats table
StatsEpisodeSet(st) ==
    {String(Coalesce(Get(r, "episode_id"), Coalesce(Get(r, "episode"), Str("")))) :
        r \in Range(st.episodeStats.rows)} \ {""}

\* the slot (ep, key) of tablesByEp
Slot(st, ep, key) ==
    IF ObjHas(st.tablesByEp, ep) /\ ObjHas(ObjGet(st.tablesByEp, ep), key)
    THEN [has |-> TRUE, rows |-> ObjGet(ObjGet(st.tablesByEp, ep), key)]
    ELSE [has |-> FALSE, rows |-> << >>]

TableKinds == Range(CsvKindOrder)

\* the store without its log of selected files
Core(st) == [st EXCEPT !.loadedFiles = << >>]

PlainFiles == {f \in SelectableFiles : ~IsZipName(f.name)}

\* the (name, text) pairs ingestFileText is called with
IngestPairs ==
    {[name |-> f.name, text |-> f.text] : f \in PlainFiles}
    \cup UNION {{[name |-> BaseName(e.name), text |-> e.text] :
                    e \in {x \in Range(JSZipLoad(f.text).files) : ~x.dir /\ IsTableEntry(x)}} :
                f \in SelectableFiles}

\* the file the call b is about to ingest, for pc "normal" or "entry"
Current(b) ==
    IF proc[b].pc = "normal"
    THEN [name |-> proc[b].normalFiles[proc[b].i].name, text |-> proc[b].normalFiles[proc[b].i].text]
    ELSE [name |-> BaseNameOf[proc[b].entries[proc[b].i].name], text |-> proc[b].entries[proc[b].i].text]

\* this step is the call b handling its current file
FileStep(b) == proc[b].pc \in {"normal", "entry"} /\ proc'[b] # proc[b]

IsTableFile(name) ==
    /\ Detected[name].found
    /\ Detected[name].key \notin {"episode_stats", "danmaku_basic_stats"}
    /\ Detected[name].ep.t = "string"

IsIgnoredFile(name) ==
    \/ ~Detected[name].found
    \/ Detected[name].key # "episode_stats" /\ Detected[name].ep.t # "string"

ParseFails(f) ==
    /\ Detected[f.name].found
    /\ Detected[f.name].key = "danmaku_basic_stats"
    /\ Detected[f.name].ep.t = "string"
    /\ JSONparse(f.text).threw

(***************************************************************************)
(* C1  After any sequence of ingests store.episodes holds exactly the keys *)
(* of tablesByEp, the keys of basicStatsByEp and the non-empty embedded    *)
(* episode values of the rows of the current scalar-stats table.           *)
(***************************************************************************)
C1_EpisodesAreUnion ==
    Range(store.episodes) =
        KeySet(store.tablesByEp) \cup KeySet(store.basicStatsByEp) \cup StatsEpisodeSet(store)

\* all three sources contribute, the scalar-stats table through both columns
C1_Witness ==
    /\ Running = {}
    /\ KeySet(store.tablesByEp) = {"01"}
    /\ KeySet(store.basicStatsByEp) = {"12"}
    /\ StatsEpisodeSet(store) = {"12", "7"}
    /\ Range(store.episodes) = {"01", "12", "7"}

(***************************************************************************)
(* C2  As stated: an identifier that is a member of store.episodes is      *)
(* still a member after every later step.                                  *)
(***************************************************************************)
C2_NeverDeleted ==
    [][\A e \in Range(store.episodes) : e \in Range(store'.episodes)]_vars

(***************************************************************************)
(* C2 as amended: a member of store.episodes stays a member after every    *)
(* step, unless the step replaces the scalar-stats table, the identifier   *)
(* is no key of tablesByEp or basicStatsByEp, and no row of the new table  *)
(* carries it.                                                             *)
(***************************************************************************)
C2_DeletedOnlyByStatsReplace ==
    [][\A e \in Range(store.episodes) :
          \/ e \in Range(store'.episodes)
          \/ /\ store'.episodeStats # store.episodeStats
             /\ e \notin KeySet(store.tablesByEp) \cup KeySet(store.basicStatsByEp)
             /\ e \notin StatsEpisodeSet(store')]_vars

\* a table of episode 01, then the scalar-stats table twice: 12 and 7 went
\* with the first table, 01 stayed
C2_Witness ==
    /\ Running = {}
    /\ Len(store.loadedFiles) = 3
    /\ store.loadedFiles[1].name = "ep01_danmaku_emo_dist.csv"
    /\ store.loadedFiles[2] = [name |-> "episode_stats.csv", size |-> 52, type |-> ""]
    /\ store.loadedFiles[3] = [name |-> "episode_stats.csv", size |-> 29, type |-> ""]
    /\ store.episodeStats.rows = parseCsv(CsvStatsB)
    /\ store.episodes = <<"01", "1">>

(***************************************************************************)
(* C3  As stated: once a file has been ingested, selecting the same file   *)
(* again leaves the Store as it is.                                        *)
(***************************************************************************)
C3_SameStoreTwice ==
    [][\A b \in 1..MaxBatches :
          (FileStep(b) /\ proc[b].pc = "normal") =>
              ingestOneFile(store', proc[b].normalFiles[proc[b].i]) = store']_vars

(***************************************************************************)
(* C3 as amended: once a file has been ingested, ingesting the same file   *)
(* again yields the same tablesByEp, basicStatsByEp, scalar-stats table    *)
(* and episodes, for every table kind; loadedFiles gains one entry per     *)
(* selection.                                                              *)
(***************************************************************************)
C3_SameTablesTwice ==
    [][\A b \in 1..MaxBatches :
          /\ (FileStep(b) /\ proc[b].pc = "normal") =>
                 LET twice == ingestOneFile(store', proc[b].normalFiles[proc[b].i])
                 IN  /\ Core(twice) = Core(store')
                     /\ Len(twice.loadedFiles) = Len(store'.loadedFiles) + 1
          /\ FileStep(b) =>
                 ingestFileText(store', Current(b).name, Current(b).text).store = store']_vars

\* the scalar-stats file was selected twice in a row, after another table
C3_Witness ==
    /\ Running = {}
    /\ Len(store.loadedFiles) = 3
    /\ store.loadedFiles[2] = store.loadedFiles[3]
    /\ store.loadedFiles[3].name = "episode_stats.csv"
    /\ store.episodeStats.set
    /\ store.tablesByEp # << >>
    /\ Core(store) = Core(ingestOneFile(store, CHOOSE f \in PlainFiles :
                              f.name = store.loadedFiles[3].name /\ f.size = store.loadedFiles[3].size))

(***************************************************************************)
(* C4  For files that all parse, the final Store does not depend on the    *)
(* order in which they are applied; files that target the same slot leave  *)
(* the content of the one applied last in it.                              *)
(***************************************************************************)
\* the slot a file targets: kind "none" for a file ingestFileText ignores
SlotOf(name) ==
    LET d == Detected[name]
    IN  IF IsIgnoredFile(name) THEN [kind |-> "none", ep |-> "", key |-> ""]
        ELSE IF d.key = "episode_stats" THEN [kind |-> "stats", ep |-> "", key |-> ""]
        ELSE IF d.key = "danmaku_basic_stats" THEN [kind |-> "basic", ep |-> d.ep.s, key |-> ""]
        ELSE [kind |-> "table", ep |-> d.ep.s, key |-> d.key]

\* the slot of file f holds the content of f
HoldsContentOf(st, f) ==
    LET sl == SlotOf(f.name)
    IN  CASE sl.kind = "stats" -> st.episodeStats = [set |-> TRUE, rows |-> parseCsv(f.text)]
          [] sl.kind = "basic" -> ObjHas(st.basicStatsByEp, sl.ep)
                                  /\ ObjGet(st.basicStatsByEp, sl.ep) = JSONparse(f.text).obj
          [] sl.kind = "table" -> Slot(st, sl.ep, sl.key) = [has |-> TRUE, rows |-> parseCsv(f.text)]
          [] OTHER -> TRUE

\* two stores with the same contents
SameStore(s, t) ==
    /\ s.episodes = t.episodes
    /\ s.episodeStats = t.episodeStats
    /\ KeySet(s.basicStatsByEp) = KeySet(t.basicStatsByEp)
    /\ \A e \in KeySet(s.basicStatsByEp) : ObjGet(s.basicStatsByEp, e) = ObjGet(t.basicStatsByEp, e)
    /\ KeySet(s.tablesByEp) = KeySet(t.tablesByEp)
    /\ \A e \in KeySet(s.tablesByEp) : \A k \in TableKinds : Slot(s, e, k) = Slot(t, e, k)

C4_OrderIndependent ==
    \A f, g \in {h \in IngestPairs : ~ParseFails(h)} :
        LET fg == ingestFileText(ingestFileText(store, f.name, f.text).store, g.name, g.text).store
            gf == ingestFileText(ingestFileText(store, g.name, g.text).store, f.name, f.text).store
        IN  IF SlotOf(f.name) = SlotOf(g.name) /\ SlotOf(f.name).kind # "none"
            THEN HoldsContentOf(fg, g) /\ HoldsContentOf(gf, f)
            ELSE SameStore(fg, gf)

(***************************************************************************)
(* C5  Ingesting a per-episode table file for (e, k) with rows R sets the  *)
(* slot (e, k) to exactly R and leaves every other slot, every basic-stats *)
(* object and the scalar-stats table unchanged.                            *)
(***************************************************************************)
C5_TableIngestReplacesSlot ==
    [][\A b \in 1..MaxBatches :
          (FileStep(b) /\ IsTableFile(Current(b).name)) =>
              LET f == Current(b)
                  d == Detected[f.name]
              IN  /\ Slot(store', d.ep.s, d.key) = [has |-> TRUE, rows |-> parseCsv(f.text)]
                  /\ \A e \in KeySet(store.tablesByEp) \cup KeySet(store'.tablesByEp) :
                        \A k \in TableKinds :
                            <<e, k>> # <<d.ep.s, d.key>> => Slot(store', e, k) = Slot(store, e, k)
                  /\ store'.basicStatsByEp = store.basicStatsByEp
                  /\ store'.episodeStats = store.episodeStats]_vars

\* the first call filled the slots (01, danmaku_emo_dist) and (001,
\* danmaku_emo_dist) with two rows each; the archive of the second call
\* overwrote the first with its one row, left the second alone and filled
\* (01, comment_func_dist)
C5_Witness ==
    /\ Running = {}
    /\ Len(proc[1].normalFiles) = 2
    /\ {proc[1].normalFiles[1].name, proc[1].normalFiles[2].name}
           = {"ep01_danmaku_emo_dist.csv", "EP001_danmaku_emo_dist.csv"}
    /\ Len(proc[2].zipFiles) = 1
    /\ loadError = NULL
    /\ Slot(store, "01", "danmaku_emo_dist") = [has |-> TRUE, rows |-> parseCsv(CsvEmoB)]
    /\ Slot(store, "001", "danmaku_emo_dist") = [has |-> TRUE, rows |-> parseCsv(CsvEmoA)]
    /\ Slot(store, "01", "comment_func_dist") = [has |-> TRUE, rows |-> parseCsv(CsvEmoB)]

(***************************************************************************)
(* C6  A file whose name matches no table kind, or a per-episode file      *)
(* (basic-stats included) without an extractable episode, leaves the Store *)
(* unchanged, raises no load error, and the call goes on to its next file. *)
(***************************************************************************)
C6_IgnoredFileIsSilent ==
    [][\A b \in 1..MaxBatches :
          (FileStep(b) /\ IsIgnoredFile(Current(b).name)) =>
              /\ store' = store
              /\ loadError' = loadError
              /\ proc'[b].pc # "done"
              /\ (\E q \in (proc[b].i + 1)..Len(proc[b].entries) : IsTableEntry(proc[b].entries[q])) =>
                     (proc'[b].pc = "entry" /\ proc'[b].i > proc[b].i)
              /\ (proc[b].pc = "entry" /\ proc[b].normalFiles # << >>) => proc'[b].pc # "finally"]_vars

\* the archive was ingested to its end: its unrecognised entry, its table
\* entry without episode and its broken basic-stats entry without episode
\* left no trace and no error, the entries after them and the plain file
\* of the same call were ingested
C6_Witness ==
    /\ Running = {}
    /\ Len(proc[1].zipFiles) = 1
    /\ Len(proc[1].normalFiles) = 1
    /\ proc[1].normalFiles[1].name = "EP001_danmaku_emo_dist.csv"
    /\ proc[2].pc = "idle"
    /\ KeySet(store.tablesByEp) = {"01", "001"}
    /\ Slot(store, "01", "danmaku_emo_dist").has
    /\ Slot(store, "001", "danmaku_emo_dist").has
    /\ KeySet(store.basicStatsByEp) = {"12"}
    /\ Range(store.episodes) = {"01", "001", "12"}
    /\ loadError = NULL

(***************************************************************************)
(* C7  When the parsing of a file fails, the call ingests no later file,   *)
(* an error message is set, and the Store updates made before are kept.    *)
(***************************************************************************)
C7_FailureAbortsBatch ==
    [][\A b \in 1..MaxBatches :
          /\ (FileStep(b) /\ ParseFails(Current(b))) =>
                 (store' = store /\ loadError' # NULL /\ proc'[b].pc = "done")
          /\ (proc[b].pc = "zip" /\ proc'[b] # proc[b]
                 /\ JSZipLoad(proc[b].zipFiles[proc[b].zi].text).threw) =>
                 (store' = store /\ loadError' # NULL /\ proc'[b].pc = "done")
          /\ proc[b].pc = "done" => proc'[b] = proc[b]]_vars

\* table of episode 01, broken basic-stats file, table of episode 001: the
\* first is kept, the third never ingested
C7_Witness ==
    /\ Running = {}
    /\ Len(proc[1].normalFiles) = 3
    /\ proc[1].normalFiles[1].name = "ep01_danmaku_emo_dist.csv"
    /\ ParseFails(proc[1].normalFiles[2])
    /\ proc[1].normalFiles[3].name = "EP001_danmaku_emo_dist.csv"
    /\ proc[2].pc = "idle"
    /\ loadError # NULL
    /\ store.episodes = <<"01">>
    /\ KeySet(store.tablesByEp) = {"01"}

(***************************************************************************)
(* C8  computePeak returns the minute and value of the row with the        *)
(* largest series value, the first such row in input order; it returns     *)
(* null exactly when the series is empty or that maximum is negative. For  *)
(* [(1,5),(2,9),(3,3)] it returns {minute: 2, value: 9}.                   *)
(***************************************************************************)
\* the series value of row p of the input, coerced as the code coerces it
PeakValueAt(p) ==
    IF peakIn[p].v.t = "number" THEN peakIn[p].v.n ELSE 0

C8_PeakIsFirstMaximum ==
    peakOut.ran =>
        IF peakIn = << >> \/ \A p \in 1..Len(peakIn) : PeakValueAt(p) < 0
        THEN peakOut.res = NULL
        ELSE \E p \in 1..Len(peakIn) :
                /\ \A q \in 1..Len(peakIn) : PeakValueAt(q) <= PeakValueAt(p)
                /\ \A q \in 1..(p - 1) : PeakValueAt(q) < PeakValueAt(p)
                /\ peakOut.res = [minute |-> peakIn[p].minute.n, value |-> PeakValueAt(p)]

\* the example of the specification
C8_Witness ==
    /\ peakOut.ran
    /\ peakIn = << [minute |-> Num(1), v |-> Num(5)], [minute |-> Num(2), v |-> Num(9)],
                   [minute |-> Num(3), v |-> Num(3)] >>
    /\ peakOut.res = [minute |-> 2, value |-> 9]

(***************************************************************************)
(* C9  For a non-empty series in which every series value is zero or is    *)
(* missing or non-numeric, computePeak returns null.                       *)
(***************************************************************************)
C9_NoPeakOnDefaultFilled ==
    (/\ peakOut.ran
     /\ peakIn # << >>
     /\ \A p \in 1..Len(peakIn) : peakIn[p].v \in {Num(0), Undefined, Str("n/a")})
        => peakOut.res = NULL

(***************************************************************************)
(* C10  Any two distinct intervals returned by topKIntervals satisfy       *)
(* max(start_i, start_j) > min(end_i, end_j), for unsorted input, gaps,    *)
(* several rows on one minute, negative values, every window size and k.   *)
(***************************************************************************)
C10_IntervalsDoNotOverlap ==
    topkOut.ran =>
        \A a, b \in 1..Len(topkOut.res) :
            a # b => Max(topkOut.res[a].start, topkOut.res[b].start)
                        > Min(topkOut.res[a].end, topkOut.res[b].end)

\* unsorted rows, two of them on one minute, a negative value, a gap of
\* minutes, and two intervals returned
C10_Witness ==
    /\ topkOut.ran
    /\ Len(topkOut.res) = 2
    /\ Len(topkIn.rows) = 3
    /\ topkIn.rows[1].minute.n > topkIn.rows[2].minute.n
    /\ topkIn.rows[2].minute = topkIn.rows[3].minute
    /\ topkIn.rows[1].minute.n > topkIn.rows[2].minute.n + 1
    /\ \E p \in 1..3 : topkIn.rows[p].v.n < 0

(***************************************************************************)
(* C11  The intervals returned by topKIntervals are ordered by start       *)
(* minute ascending, whatever order the selection picked them in.          *)
(***************************************************************************)
C11_SortedByStart ==
    topkOut.ran =>
        \A a, b \in 1..Len(topkOut.res) :
            a < b => topkOut.res[a].start <= topkOut.res[b].start

\* two intervals, the later one with the higher score: it was picked first
C11_Witness ==
    /\ topkOut.ran
    /\ Len(topkOut.res) = 2
    /\ topkOut.res[1].score < topkOut.res[2].score

(***************************************************************************)
(* C12  topKIntervals gives the same intervals (start, end, score) for     *)
(* every permutation of the rows of its input.                             *)
(***************************************************************************)
Permuted(rows, f) == [p \in 1..Len(rows) |-> rows[f[p]]]

C12_OrderIndependent ==
    topkOut.ran =>
        \A f \in Permutations(1..Len(topkIn.rows)) :
            topKIntervals(Permuted(topkIn.rows, f), "v", topkIn.w, topkIn.k) = topkOut.res

(***************************************************************************)
(* C19  topKIntervals equals the reference greedy procedure: rows in       *)
(* minute order; one candidate [i..j] per row i, j the largest index with  *)
(* minute[j] <= minute[i] + (window - 1), its score the sum of the values  *)
(* at i..j; candidates considered by score descending, equal scores by     *)
(* ascending anchor; a candidate is selected iff fewer than k are selected *)
(* and its index range meets no selected range. The candidate of the       *)
(* highest score is part of the result.                                    *)
(***************************************************************************)
\* the reference works on the numbers of the rows: a value that is no
\* number counts 0
RefNumber(x) == IF x.t = "number" THEN x.n ELSE 0

\* the rows in minute order, rows of one minute in input order
RefOrder(rows) ==
    LET n == Len(rows)
        before(q, p) ==
            \/ RefNumber(rows[q].minute) < RefNumber(rows[p].minute)
            \/ RefNumber(rows[q].minute) = RefNumber(rows[p].minute) /\ q < p
        rank(p) == Cardinality({q \in 1..n : before(q, p)}) + 1
    IN  [r \in 1..n |-> rows[CHOOSE p \in 1..n : rank(p) = r]]

RECURSIVE RefSum(_, _, _)
RefSum(sorted, i, j) ==
    IF i > j THEN 0 ELSE RefNumber(sorted[i].v) + RefSum(sorted, i + 1, j)

\* the candidates of the reference for the window w
RefCandidates(sorted, w) ==
    { LET m == RefNumber(sorted[i].minute)
          inside == {x \in i..Len(sorted) : RefNumber(sorted[x].minute) <= m + (w - 1)}
          j == CHOOSE x \in inside : \A y \in inside : y <= x
      IN  [i |-> i, j |-> j, score |-> RefSum(sorted, i, j),
           start |-> m, end |-> RefNumber(sorted[j].minute)] : i \in 1..Len(sorted) }

\* the greedy pass over the candidates left, best first
RECURSIVE RefGreedy(_, _, _)
RefGreedy(left, k, selected) ==
    IF left = {} THEN selected
    ELSE LET c == CHOOSE x \in left :
                      \A y \in left : y.score < x.score \/ (y.score = x.score /\ y.i >= x.i)
             free == \A u \in selected : (u.i..u.j) \cap (c.i..c.j) = {}
         IN  RefGreedy(left \ {c}, k,
                       IF Cardinality(selected) < k /\ free THEN selected \cup {c} ELSE selected)

\* the window and k the reference runs with
RefWindow == Min(Max(topkIn.w, 1), 20)
RefK == Min(Max(topkIn.k, 1), 5)

\* the intervals of the reference for the input of the state
RefTopK ==
    {[start |-> c.start, end |-> c.end, score |-> c.score] :
        c \in RefGreedy(RefCandidates(RefOrder(topkIn.rows), RefWindow), RefK, {})}

C19_EqualsReferenceGreedy ==
    topkOut.ran =>
        /\ Range(topkOut.res) = RefTopK
        /\ Len(topkOut.res) = Cardinality(RefTopK)
        /\ \A c \in RefCandidates(RefOrder(topkIn.rows), RefWindow) :
              \E a \in 1..Len(topkOut.res) : topkOut.res[a].score >= c.score

\* two intervals were selected and a candidate of a higher score than one
\* of them was skipped, because it meets the interval selected first
C19_Witness ==
    /\ topkOut.ran
    /\ Len(topkOut.res) = 2
    /\ topkIn.k >= 2
    /\ \E c \in RefCandidates(RefOrder(topkIn.rows), RefWindow) :
          /\ [start |-> c.start, end |-> c.end, score |-> c.score] \notin Range(topkOut.res)
          /\ \E a \in 1..2 : c.score > topkOut.res[a].score

(***************************************************************************)
(* C20  For every windowSize and k, also 0 and very large ones, the result *)
(* has at most min(max(k, 1), 5) intervals and every interval satisfies    *)
(* 0 <= end - start <= min(max(windowSize, 1), 20) - 1.                    *)
(***************************************************************************)
C20_ClampedSizes ==
    topkOut.ran =>
        /\ Len(topkOut.res) <= Min(Max(topkIn.k, 1), 5)
        /\ \A a \in 1..Len(topkOut.res) :
              /\ 0 <= topkOut.res[a].end - topkOut.res[a].start
              /\ topkOut.res[a].end - topkOut.res[a].start <= Min(Max(topkIn.w, 1), 20) - 1

\* k = 6 and window 25 on seven rows: five intervals, the first of them
\* spanning the 20 minutes of the limit
C20_Witness ==
    /\ topkOut.ran
    /\ topkIn.k = 6
    /\ topkIn.w = 25
    /\ Len(topkIn.rows) = 7
    /\ Len(topkOut.res) = 5
    /\ topkOut.res[1].end - topkOut.res[1].start = 19

(***************************************************************************)
(* C18  store.episodes is always sorted ascending by the integer value of  *)
(* the identifiers (numeric, not lexical) and holds no identifier string   *)
(* twice, after any sequence of ingests.                                   *)
(***************************************************************************)
C18_EpisodesSortedNoDuplicates ==
    /\ \A p \in 1..Len(store.episodes) : AllDigits(store.episodes[p])
    /\ \A p, q \in 1..Len(store.episodes) :
          p < q => /\ DecimalValue(store.episodes[p]) <= DecimalValue(store.episodes[q])
                   /\ store.episodes[p] # store.episodes[q]

\* "7" stands before "12": the order of the numbers, not of the strings
C18_Witness ==
    /\ Len(store.episodes) = 3
    /\ store.episodes[2] = "7"
    /\ store.episodes[3] = "12"

(***************************************************************************)
(* One archive upload on a store that earlier uploads of plain files left  *)
(***************************************************************************)
\* the plain-file loop of ingestFiles run to its end on prev: it ends at the
\* first file ingestFileText rejects
RECURSIVE ingestPlainLoop(_, _)
ingestPlainLoop(prev, list) ==
    IF list = << >> THEN prev
    ELSE LET res == ingestFileText(prev, Head(list).name, Head(list).text)
         IN  IF res.threw THEN prev ELSE ingestPlainLoop(res.store, Tail(list))

\* ingestFiles(list) for a list of plain files, run to its end on prev
ingestPlainFiles(prev, list) ==
    LET meta == [q \in 1..Len(list) |-> [name |-> list[q].name, size |-> list[q].size, type |-> list[q].type]]
    IN  IF list = << >> THEN prev
        ELSE ingestPlainLoop([prev EXCEPT !.loadedFiles = prev.loadedFiles \o meta], list)

\* the entries of an archive the entries loop hands to ingestFileText, as
\* files named by their base filenames
EntryFiles(zf) ==
    LET zip == JSZipLoad(zf.text)
        kept == Filter(zip.files, {e \in Range(zip.files) : ~e.dir /\ IsTableEntry(e)})
    IN  [q \in 1..Len(kept) |-> File(BaseNameOf[kept[q].name], 0, kept[q].text)]

\* ingestFiles([zf]) for one archive zf, run to its end on prev
ingestArchive(prev, zf) ==
    LET meta == [name |-> zf.name, size |-> zf.size, type |-> zf.type]
        logged == [prev EXCEPT !.loadedFiles = prev.loadedFiles \o <<meta>>]
    IN  IF JSZipLoad(zf.text).threw THEN logged ELSE ingestPlainLoop(logged, EntryFiles(zf))

\* the stores one selection of fewer than MaxFiles plain files leaves
ZipStartStores ==
    {ingestPlainFiles(EmptyStore, list) : list \in UNION {[1..n -> PlainFiles] : n \in 0..(MaxFiles - 1)}}

InitZip ==
    /\ store \in ZipStartStores
    /\ loading = NULL
    /\ loadError = NULL
    /\ proc = [b \in 1..MaxBatches |-> IdleProc]
    /\ peakIn = << >>
    /\ peakOut = NotRun
    /\ topkIn = [rows |-> << >>, w |-> 0, k |-> 0]
    /\ topkOut = NotRun
    /\ distIn = NoDistInput
    /\ distOut = NotRun
    /\ zipStart = store
    /\ activeEp = Null
    /\ compareEps = << >>
    /\ distCompareEps = << >>
    /\ cmpIn = NoCmpInput
    /\ cmpOut = NotRun

\* the user selects one archive, and the call runs
NextZip ==
    \/ \E zf \in {f \in KnownFiles : IsZipName(f.name)} : IngestFilesStart(1, <<zf>>)
    \/ ZipOpen(1)
    \/ ZipEntry(1)
    \/ Finish(1)

SpecZip == InitZip /\ [][NextZip]_vars

(***************************************************************************)
(* C17  Uploading an archive whose non-directory entries are E1..En gives  *)
(* the same tablesByEp, basicStatsByEp, scalar-stats table and episode set *)
(* as uploading E1..En one after another as standalone files named by      *)
(* their base filenames.                                                   *)
(***************************************************************************)
\* the archive of the upload of the state, once the upload is over
ZipDone == proc[1].pc = "done"
Archive == proc[1].zipFiles[1]

\* the same tables, per-episode stats, scalar-stats table and episode set
SameData(s, t) ==
    /\ s.tablesByEp = t.tablesByEp
    /\ s.basicStatsByEp = t.basicStatsByEp
    /\ s.episodeStats = t.episodeStats
    /\ Range(s.episodes) = Range(t.episodes)

\* every non-directory entry of the archive zf as a file named by its base
\* filename, in archive order
AllEntryFiles(zf) ==
    LET zip == JSZipLoad(zf.text)
        entries == Filter(zip.files, {e \in Range(zip.files) : ~e.dir})
    IN  [q \in 1..Len(entries) |-> File(BaseNameOf[entries[q].name], 0, entries[q].text)]

\* one upload per file of list, each run to its end before the next
RECURSIVE OneAfterAnother(_, _)
OneAfterAnother(prev, list) ==
    IF list = << >> THEN prev
    ELSE LET f == Head(list)
             next == IF IsZipName(f.name) THEN ingestArchive(prev, f) ELSE ingestOneFile(prev, f)
         IN  OneAfterAnother(next, Tail(list))

\* as stated: every entry, an upload of its own
C17_ArchiveAsSeparateUploads ==
    ZipDone => SameData(store, OneAfterAnother(zipStart, AllEntryFiles(Archive)))

\* amended: the entries of a name ending in .csv or .json, selected together
\* in archive order; an archive that cannot be opened leaves the data alone
C17_ArchiveAsOneSelection ==
    ZipDone => SameData(store, ingestPlainFiles(zipStart, EntryFiles(Archive)))

\* an archive upload ended at an entry that failed to parse, after an entry
\* that changed the store and before one that would have
C17_Witness ==
    /\ ZipDone
    /\ ~loadError.isNull
    /\ ~SameData(store, zipStart)
    /\ ~SameData(store, OneAfterAnother(zipStart, AllEntryFiles(Archive)))

(***************************************************************************)
(* Colours                                                                 *)
(***************************************************************************)
EMO_ORDER == <<"touching", "laugh", "praise", "neg", "self_mock", "other">>

EMO_COLOR_MAP ==
    << [k |-> "touching", v |-> "#2563eb"], [k |-> "laugh", v |-> "#16a34a"],
       [k |-> "praise", v |-> "#ea580c"], [k |-> "neg", v |-> "#dc2626"],
       [k |-> "self_mock", v |-> "#7c3aed"], [k |-> "other", v |-> "#0891b2"],
       [k |-> "pos", v |-> "#0ea5e9"], [k |-> "neu", v |-> "#64748b"] >>

HexChars == "0123456789abcdef"

\* v.toString(16).padStart(2, "0") for 0 <= v <= 255
toHex(v) == CharAt(HexChars, (v \div 16) + 1) \o CharAt(HexChars, (v % 16) + 1)

Abs(x) == IF x < 0 THEN 0 - x ELSE x

\* hslToHex(h, s, l) for an integer hue h in 0..359 and s, l in percent.
\* c, x and m are kept as integers in units of 1/1200000, so that the
\* rounding of (v + m) * 255 is the rounding of the exact value.
hslToHex(h, s, l) ==
    LET cs == (100 - Abs(2 * l - 100)) * s
        c == 120 * cs
        x == 2 * cs * (60 - Abs((h % 120) - 60))
        m == 12000 * l - 60 * cs
        rgb == IF h < 60 THEN <<c, x, 0>>
               ELSE IF h < 120 THEN <<x, c, 0>>
               ELSE IF h < 180 THEN <<0, c, x>>
               ELSE IF h < 240 THEN <<0, x, c>>
               ELSE IF h < 300 THEN <<x, 0, c>>
               ELSE <<c, 0, x>>
        byte(v) == (510 * (v + m) + 1200000) \div 2400000
    IN  "#" \o toHex(byte(rgb[1])) \o toHex(byte(rgb[2])) \o toHex(byte(rgb[3]))

\* a ^ b on non-negative integers
RECURSIVE Xor(_, _)
Xor(a, b) ==
    IF a = 0 /\ b = 0 THEN 0
    ELSE ((a + b) % 2) + 2 * Xor(a \div 2, b \div 2)

\* str.charCodeAt(i) for the characters of the keys: "_", a-z, 0-9
charCode(c) ==
    IF c = "_" THEN 95
    ELSE IF IsDigit(c) THEN 48 + DigitVal(c)
    ELSE 96 + (CHOOSE p \in 1..26 : CharAt(LowerChars, p) = c)

\* the loop of fnv1aHash32 from character p on. The 32 bits of h are kept as
\* two halves of 16 bits, h = hi * 65536 + lo: the character code changes the
\* low byte, and the product with 16777619 = 2^24 + 403 is taken modulo 2^32.
RECURSIVE fnvLoop(_, _, _)
fnvLoop(str, p, h) ==
    IF p > Len(str) THEN h
    ELSE LET lo == (h.lo \div 256) * 256 + Xor(h.lo % 256, charCode(CharAt(str, p)))
             low == lo * 403
             high == h.hi * 403 + (low \div 65536) + (lo % 256) * 256
         IN  fnvLoop(str, p + 1, [hi |-> high % 65536, lo |-> low % 65536])

\* fnv1aHash32(str), h = 2166136261 = 33052 * 65536 + 40389 at the start
fnv1aHash32(str) == fnvLoop(str, 1, [hi |-> 33052, lo |-> 40389])

\* h % m for a hash in two halves
HashMod(h, m) == ((h.hi % m) * (65536 % m) + h.lo) % m

stableColorFromKey(key) ==
    LET h == HashMod(fnv1aHash32(key), 360)
        l == IF HashMod(fnv1aHash32(key \o "_l"), 2) = 0 THEN 45 ELSE 58
    IN  hslToHex(h, 82, l)

\* the function tags of the tables below, "other" among them
FuncTags == {"greet", "spoiler", "other_tag", "hype", "meme", "ask", "other"}

\* stableColorFromKey on the keys the charts ask for, computed once
StableColorOf ==
    [key \in FuncTags \cup {"func_" \o t : t \in FuncTags} |-> stableColorFromKey(key)]

colorForKey(key, mode) ==
    IF mode = "emo" /\ ObjHas(EMO_COLOR_MAP, key) THEN ObjGet(EMO_COLOR_MAP, key)
    ELSE IF mode = "func" THEN StableColorOf[key]
    ELSE "#334155"

(***************************************************************************)
(* distCompareData                                                         *)
(*                                                                         *)
(* A ratio is kept in tenths: the cell Num(4) of a distribution table      *)
(* stands for the ratio 0.4, and Unit for the 1 of 1 - sumTop. Sums and    *)
(* means are exact: a mean is the pair of its sum and its count.           *)
(***************************************************************************)
Unit == 10

\* the result of the early returns
EmptyDist == [rows |-> << >>, keys |-> << >>, label |-> "", colors |-> << >>]

\* the table the kind of comparison reads
DistTableKey(distKind) ==
    IF SubSeq(distKind, 1, 4) = "emo_"
    THEN IF distKind = "emo_danmaku" THEN TABLE_KEYS.DANMU_EMO
         ELSE IF distKind = "emo_comment_root" THEN TABLE_KEYS.COM_ROOT_EMO
         ELSE TABLE_KEYS.COM_REPLY_EMO
    ELSE IF distKind = "func_danmaku" THEN TABLE_KEYS.DANMU_FUNC
         ELSE IF distKind = "func_comment_all" THEN TABLE_KEYS.COM_ALL_FUNC
         ELSE IF distKind = "func_comment_root" THEN TABLE_KEYS.COM_ROOT_FUNC
         ELSE TABLE_KEYS.COM_REPLY_FUNC

\* the caption of the chart, in English
DistLabel(distKind) ==
    CASE distKind = "emo_danmaku" -> "danmaku emotion distribution (stacked)"
      [] distKind = "emo_comment_root" -> "root comment emotion distribution (stacked)"
      [] distKind = "func_danmaku" -> "danmaku function distribution (TopN + other)"
      [] distKind = "func_comment_all" -> "comment function distribution (all)"
      [] distKind = "func_comment_root" -> "comment function distribution (root)"
      [] SubSeq(distKind, 1, 4) = "emo_" -> "reply comment emotion distribution (stacked)"
      [] OTHER -> "comment function distribution (reply)"

\* store.tablesByEp[ep]?.[tableKey] ?? []
DistRows(tablesByEp, ep, tableKey) ==
    IF ObjHas(tablesByEp, ep) /\ ObjHas(ObjGet(tablesByEp, ep), tableKey)
    THEN ObjGet(ObjGet(tablesByEp, ep), tableKey)
    ELSE << >>

\* a slip of hasAny: the test for rows is forgotten
hasAnyForgotten(tablesByEp, selectedEps, tableKey) == TRUE

\* distCompareEps.some((ep) => (store.tablesByEp[ep]?.[tableKey]?.length ?? 0) > 0)
hasAny(tablesByEp, selectedEps, tableKey) ==
    \E p \in 1..Len(selectedEps) : Len(DistRows(tablesByEp, selectedEps[p], tableKey)) > 0

\* String(r[col] ?? r.label ?? "other")
DistTag(r, col) == String(Coalesce(Get(r, col), Coalesce(Get(r, "label"), Str("other"))))

\* the loop m[tag] = safeNumber(r.ratio) over the rows of one table
RECURSIVE RatioMap(_, _, _)
RatioMap(dist, col, m) ==
    IF dist = << >> THEN m
    ELSE RatioMap(Tail(dist), col, ObjSet(m, DistTag(Head(dist), col), safeNumber(Get(Head(dist), "ratio"))))

\* { episode: ..., ep }
DistBaseRow(ep) == << [k |-> "episode", v |-> Str("episode " \o ep)], [k |-> "ep", v |-> Str(ep)] >>

\* for (const k of keys) row[k] = m[k] ?? 0
RECURSIVE FillRow(_, _, _)
FillRow(row, keys, m) ==
    IF keys = << >> THEN row
    ELSE FillRow(ObjSet(row, Head(keys), Num(IF ObjHas(m, Head(keys)) THEN ObjGet(m, Head(keys)) ELSE 0)),
                 Tail(keys), m)

\* funcMean[func].push(safeNumber(r.ratio)) over the rows of one table; of
\* the array of a tag its sum and its length are kept
RECURSIVE FuncMeanRows(_, _)
FuncMeanRows(dist, funcMean) ==
    IF dist = << >> THEN funcMean
    ELSE LET func == DistTag(Head(dist), "func")
             old == IF ObjHas(funcMean, func) THEN ObjGet(funcMean, func) ELSE [sum |-> 0, len |-> 0]
             new == [sum |-> old.sum + safeNumber(Get(Head(dist), "ratio")), len |-> old.len + 1]
         IN  FuncMeanRows(Tail(dist), ObjSet(funcMean, func, new))

\* the loop over distCompareEps that fills funcMean
RECURSIVE FuncMean(_, _, _, _)
FuncMean(tablesByEp, eps, tableKey, funcMean) ==
    IF eps = << >> THEN funcMean
    ELSE FuncMean(tablesByEp, Tail(eps), tableKey,
                  FuncMeanRows(DistRows(tablesByEp, Head(eps), tableKey), funcMean))

\* the tags of funcScores after funcScores.sort((a, b) => b[1] - a[1]), the
\* score of a tag being sum / Math.max(1, length): a stable sort, descending
FuncRanking(funcMean) ==
    LET n == Len(funcMean)
        num(p) == funcMean[p].v.sum
        den(p) == Max(1, funcMean[p].v.len)
        before(q, p) ==
            \/ num(q) * den(p) > num(p) * den(q)
            \/ num(q) * den(p) = num(p) * den(q) /\ q < p
        rank(p) == Cardinality({q \in 1..n : before(q, p)}) + 1
    IN  [r \in 1..n |-> funcMean[CHOOSE p \in 1..n : rank(p) = r].k]

\* keys.forEach((k) => (colors[k] = ...))
RECURSIVE FuncColors(_, _)
FuncColors(keys, colors) ==
    IF keys = << >> THEN colors
    ELSE FuncColors(Tail(keys),
                    ObjSet(colors, Head(keys),
                           IF Head(keys) = "other" THEN "#94a3b8"
                           ELSE StableColorOf["func_" \o Head(keys)]))

\* topKeys.reduce((s, k) => s + (row[k] ?? 0), 0)
RECURSIVE SumTop(_, _)
SumTop(row, topKeys) ==
    IF topKeys = << >> THEN 0
    ELSE (IF ObjHas(row, Head(topKeys)) THEN ObjGet(row, Head(topKeys)).n ELSE 0)
         + SumTop(row, Tail(topKeys))

\* the row of one episode in the func branch
FuncRow(tablesByEp, ep, tableKey, topKeys) ==
    LET m == RatioMap(DistRows(tablesByEp, ep, tableKey), "func", << >>)
        row == FillRow(DistBaseRow(ep), topKeys, m)
    IN  ObjSet(row, "other", Num(Max(0, Unit - SumTop(row, topKeys))))

\* the row of one episode in the emo branch
EmoRow(tablesByEp, ep, tableKey) ==
    FillRow(DistBaseRow(ep), EMO_ORDER, RatioMap(DistRows(tablesByEp, ep, tableKey), "emo", << >>))

distCompareData(tablesByEp, selectedEps, distKind, distStackTopN) ==
    LET isEmo == SubSeq(distKind, 1, 4) = "emo_"
        tableKey == DistTableKey(distKind)
        funcMean == FuncMean(tablesByEp, selectedEps, tableKey, << >>)
        ranking == FuncRanking(funcMean)
        topKeys == SubSeq(ranking, 1, Min(Len(ranking), Max(3, Min(12, distStackTopN))))
        keys == topKeys \o <<"other">>
    IN  IF selectedEps = << >> THEN EmptyDist
        ELSE IF ~hasAny(tablesByEp, selectedEps, tableKey) THEN EmptyDist
        ELSE IF isEmo
        THEN [rows |-> [p \in 1..Len(selectedEps) |-> EmoRow(tablesByEp, selectedEps[p], tableKey)],
              keys |-> EMO_ORDER,
              label |-> DistLabel(distKind),
              colors |-> EMO_COLOR_MAP]
        ELSE [rows |-> [p \in 1..Len(selectedEps) |->
                            FuncRow(tablesByEp, selectedEps[p], tableKey, topKeys)],
              keys |-> keys,
              label |-> DistLabel(distKind),
              colors |-> FuncColors(keys, << >>)]

(***************************************************************************)
(* distCompareData on bounded stores                                       *)
(***************************************************************************)
\* function-tag tables: the two of the worked example of the documentation,
\* one with the tag "other" and a row without a tag, one with a tag in the
\* column label, ratios of a sum above 1 and a ratio that is no number, one
\* with five tags
FuncA ==
    << [func |-> Str("greet"), ratio |-> Num(4)], [func |-> Str("spoiler"), ratio |-> Num(3)],
       [func |-> Str("other_tag"), ratio |-> Num(3)] >>
FuncB ==
    << [func |-> Str("greet"), ratio |-> Num(1)], [func |-> Str("spoiler"), ratio |-> Num(5)],
       [func |-> Str("hype"), ratio |-> Num(4)] >>
FuncOther ==
    << [func |-> Str("other"), ratio |-> Num(5)], [func |-> Null, ratio |-> Num(1)],
       [func |-> Str("greet"), ratio |-> Num(4)] >>
FuncLoose ==
    << [func |-> Null, label |-> Str("greet"), ratio |-> Num(8)],
       [func |-> Str("spoiler"), label |-> Null, ratio |-> Num(7)],
       [func |-> Str("hype"), label |-> Null, ratio |-> Str("n/a")] >>
FuncFive ==
    << [func |-> Str("greet"), ratio |-> Num(3)], [func |-> Str("spoiler"), ratio |-> Num(2)],
       [func |-> Str("hype"), ratio |-> Num(2)], [func |-> Str("meme"), ratio |-> Num(2)],
       [func |-> Str("ask"), ratio |-> Num(1)] >>

\* emotion tables: one with two emotions of the fixed order, one with an
\* emotion in the column label, a row without an emotion and an emotion
\* outside the fixed order
EmoA == << [emo |-> Str("laugh"), ratio |-> Num(6)], [emo |-> Str("neg"), ratio |-> Num(4)] >>
EmoLoose ==
    << [emo |-> Null, label |-> Str("praise"), ratio |-> Num(7)],
       [emo |-> Null, label |-> Null, ratio |-> Num(2)],
       [emo |-> Str("pos"), label |-> Null, ratio |-> Num(1)] >>

\* what store.tablesByEp holds for one episode: nothing, or a table map
DistTableMaps ==
    { [has |-> FALSE, tables |-> << >>],
      [has |-> TRUE, tables |-> << [k |-> TABLE_KEYS.DANMU_FUNC, v |-> << >>] >>],
      [has |-> TRUE, tables |-> << [k |-> TABLE_KEYS.DANMU_FUNC, v |-> FuncA] >>],
      [has |-> TRUE, tables |-> << [k |-> TABLE_KEYS.DANMU_FUNC, v |-> FuncB] >>],
      [has |-> TRUE, tables |-> << [k |-> TABLE_KEYS.DANMU_FUNC, v |-> FuncOther] >>],
      [has |-> TRUE, tables |-> << [k |-> TABLE_KEYS.DANMU_FUNC, v |-> FuncLoose] >>],
      [has |-> TRUE, tables |-> << [k |-> TABLE_KEYS.DANMU_FUNC, v |-> FuncFive] >>],
      [has |-> TRUE, tables |-> << [k |-> TABLE_KEYS.DANMU_EMO, v |-> EmoA],
                                   [k |-> TABLE_KEYS.COM_ALL_FUNC, v |-> FuncA] >>],
      [has |-> TRUE, tables |-> << [k |-> TABLE_KEYS.DANMU_EMO, v |-> EmoLoose] >>] }

\* store.tablesByEp for the choice c of a table map per episode 1..n
RECURSIVE DistTablesByEp(_, _)
DistTablesByEp(c, n) ==
    IF n = 0 THEN << >>
    ELSE LET rest == DistTablesByEp(c, n - 1)
         IN  IF c[n].has THEN ObjSet(rest, StringOfEpisode[n], c[n].tables) ELSE rest

DistStores == {DistTablesByEp(c, MaxDistEps) : c \in [1..MaxDistEps -> DistTableMaps]}

\* the episodes of S in ascending order, as toggleDistEp keeps distCompareEps
RECURSIVE AscendingEps(_)
AscendingEps(S) ==
    IF S = {} THEN << >>
    ELSE LET n == CHOOSE x \in S : \A y \in S : x <= y
         IN  <<StringOfEpisode[n]>> \o AscendingEps(S \ {n})

DistSelections == {AscendingEps(S) : S \in SUBSET (1..MaxDistEps)}

DistKinds == {"emo_danmaku", "func_danmaku", "func_comment_all"}

\* distStackTopN: below and inside the limits 3 and 12 of line 822
TopNs == {2, 3, 4}

InitDist ==
    /\ store = EmptyStore
    /\ loading = NULL
    /\ loadError = NULL
    /\ proc = [b \in 1..MaxBatches |-> IdleProc]
    /\ peakIn = << >>
    /\ peakOut = NotRun
    /\ topkIn = [rows |-> << >>, w |-> 0, k |-> 0]
    /\ topkOut = NotRun
    /\ distIn \in [tables : DistStores, eps : DistSelections, kind : DistKinds, topN : TopNs]
    /\ distOut = NotRun
    /\ zipStart = EmptyStore
    /\ activeEp = Null
    /\ compareEps = << >>
    /\ distCompareEps = << >>
    /\ cmpIn = NoCmpInput
    /\ cmpOut = NotRun

RunDist ==
    /\ ~distOut.ran
    /\ distOut' = [ran |-> TRUE,
                   res |-> distCompareData(distIn.tables, distIn.eps, distIn.kind, distIn.topN)]
    /\ UNCHANGED <<storeVars, peakVars, topkVars, distIn, zipStart, uiVars, cmpVars>>

NextDist == RunDist

SpecDist == InitDist /\ [][NextDist]_vars

(***************************************************************************)
(* Vocabulary of the properties of distCompareData                         *)
(***************************************************************************)
\* the comparison of the state is over function tags
FuncKind == distIn.kind \in {"func_danmaku", "func_comment_all"}

\* the table a kind of comparison needs
NeededTable ==
    CASE distIn.kind = "emo_danmaku" -> "danmaku_emo_dist"
      [] distIn.kind = "func_danmaku" -> "danmaku_func_dist"
      [] distIn.kind = "func_comment_all" -> "comment_func_dist"

\* the rows the store holds for the selected episode p in the needed table
InputRows(p) ==
    LET ep == distIn.eps[p]
    IN  IF ObjHas(distIn.tables, ep) /\ ObjHas(ObjGet(distIn.tables, ep), NeededTable)
        THEN ObjGet(ObjGet(distIn.tables, ep), NeededTable)
        ELSE << >>

\* the named categories of the result: its keys but the last, "other"
NamedKeys == SubSeq(distOut.res.keys, 1, Len(distOut.res.keys) - 1)

\* the value of the category k in the output row p
RowValue(p, k) == ObjGet(distOut.res.rows[p], k).n

RECURSIVE SumOfRatios(_)
SumOfRatios(rows) ==
    IF rows = << >> THEN 0 ELSE Head(rows).ratio.n + SumOfRatios(Tail(rows))

RECURSIVE SumOfNamed(_, _)
SumOfNamed(p, keys) ==
    IF keys = << >> THEN 0 ELSE RowValue(p, Head(keys)) + SumOfNamed(p, Tail(keys))

(***************************************************************************)
(* C13  With episode "1" having danmaku_func_dist {greet 0.4, spoiler 0.3, *)
(* other_tag 0.3}, episode "2" having {greet 0.1, spoiler 0.5, hype 0.4},  *)
(* both selected, and topN = 2, the named categories are exactly greet and *)
(* spoiler, and other is 0.3 for episode "1" and 0.4 for episode "2".      *)
(***************************************************************************)
WorkedExample ==
    /\ distIn.tables = << [k |-> "1", v |-> << [k |-> "danmaku_func_dist", v |-> FuncA] >>],
                          [k |-> "2", v |-> << [k |-> "danmaku_func_dist", v |-> FuncB] >>] >>
    /\ distIn.eps = <<"1", "2">>
    /\ distIn.kind = "func_danmaku"
    /\ distIn.topN = 2

C13_WorkedExample ==
    (distOut.ran /\ WorkedExample) =>
        /\ Range(NamedKeys) = {"greet", "spoiler"}
        /\ RowValue(1, "other") = 3
        /\ RowValue(2, "other") = 4

(***************************************************************************)
(* C14  In a comparison over function tags every output row has            *)
(* other >= 0, and for every selected episode whose input ratios are       *)
(* non-negative and sum to 1, the values of the named categories of its    *)
(* row plus its other value sum to 1.                                      *)
(***************************************************************************)
C14_RowsSumToOne ==
    (distOut.ran /\ FuncKind) =>
        \A p \in 1..Len(distOut.res.rows) :
            /\ RowValue(p, "other") >= 0
            /\ ( /\ \A q \in 1..Len(InputRows(p)) :
                        InputRows(p)[q].ratio.t = "number" /\ InputRows(p)[q].ratio.n >= 0
                 /\ SumOfRatios(InputRows(p)) = Unit )
               => SumOfNamed(p, NamedKeys) + RowValue(p, "other") = Unit

(***************************************************************************)
(* C15  If none of the selected episodes has a row in the table the kind   *)
(* of comparison needs, the result has no rows and no categories: not one  *)
(* all-zero row per episode.                                               *)
(***************************************************************************)
C15_EmptyWhenNoRows ==
    (distOut.ran /\ \A p \in 1..Len(distIn.eps) : InputRows(p) = << >>) =>
        /\ distOut.res.rows = << >>
        /\ distOut.res.keys = << >>

\* two episodes are selected, both with tables in the store, one of them
\* with the needed table without rows, and the result is empty
C15_Witness ==
    /\ distOut.ran
    /\ Len(distIn.eps) = 2
    /\ \A p \in 1..2 : ObjHas(distIn.tables, distIn.eps[p]) /\ InputRows(p) = << >>
    /\ \E p \in 1..2 : ObjHas(ObjGet(distIn.tables, distIn.eps[p]), NeededTable)
    /\ distOut.res.rows = << >>
    /\ distOut.res.keys = << >>

(***************************************************************************)
(* C16  The colour of a function tag in the comparison of distributions    *)
(* is the colour of the series of that tag in the minute curve chart of    *)
(* function tags.                                                          *)
(***************************************************************************)
C16_SameColorInBothCharts ==
    (distOut.ran /\ FuncKind) =>
        \A p \in 1..Len(NamedKeys) :
            ObjGet(distOut.res.colors, NamedKeys[p]) = colorForKey(NamedKeys[p], "func")

(***************************************************************************)
(* One batch of archives and plain files on a store that earlier uploads   *)
(* of plain files left                                                     *)
(***************************************************************************)
\* the user selects a list of files, and the call runs
NextBatch ==
    \/ /\ proc[1].pc = "idle"
       /\ \E list \in UNION {[1..n -> KnownFiles] : n \in 1..(MaxFiles - Len(store.loadedFiles))} :
              IngestFilesStart(1, list)
    \/ ZipOpen(1)
    \/ ZipEntry(1)
    \/ NormalFile(1)
    \/ Finish(1)

SpecBatch == InitZip /\ [][NextBatch]_vars

(***************************************************************************)
(* C21  Within one batch the files are applied to the store one after      *)
(* another in a fixed order: every archive in list order with its entries  *)
(* in archive order, then every plain file in list order. Consequently,    *)
(* when a plain file and an archive entry of the same batch target the     *)
(* same slot, the content of the plain file is the final one wherever the  *)
(* archive stands in the selected list.                                    *)
(***************************************************************************)
BatchDone == proc[1].pc = "done"

\* the file a line of the log of selected files stands for
FileOfMeta(m) == CHOOSE f \in KnownFiles : f.name = m.name /\ f.size = m.size

\* the list the user selected, read from the log of selected files
SelectedList ==
    LET n == Len(zipStart.loadedFiles)
    IN  [q \in 1..(Len(store.loadedFiles) - n) |-> FileOfMeta(store.loadedFiles[n + q])]

\* the entries of the archives zips, archive after archive; open = FALSE
\* when one of the archives cannot be opened, files ending before it
RECURSIVE ArchivePart(_)
ArchivePart(zips) ==
    IF zips = << >> THEN [files |-> << >>, open |-> TRUE]
    ELSE IF JSZipLoad(Head(zips).text).threw THEN [files |-> << >>, open |-> FALSE]
    ELSE LET rest == ArchivePart(Tail(zips))
         IN  [files |-> EntryFiles(Head(zips)) \o rest.files, open |-> rest.open]

\* the files of the batch list in the order of the claim
BatchSequence(list) ==
    LET archives == ArchivePart(Filter(list, {f \in Range(list) : IsZipName(f.name)}))
        plain == Filter(list, {f \in Range(list) : ~IsZipName(f.name)})
    IN  IF archives.open THEN archives.files \o plain ELSE archives.files

\* the entries of the archives of list, whether they are reached or not
RECURSIVE AllArchiveEntries(_)
AllArchiveEntries(list) ==
    IF list = << >> THEN {}
    ELSE (IF IsZipName(Head(list).name) /\ ~JSZipLoad(Head(list).text).threw
          THEN Range(EntryFiles(Head(list))) ELSE {})
         \cup AllArchiveEntries(Tail(list))

\* the positions of list of a plain file that targets a slot an archive
\* entry of list targets too, no later plain file of list targeting it
ContestedPlain(list) ==
    {p \in 1..Len(list) :
        /\ ~IsZipName(list[p].name)
        /\ SlotOf(list[p].name).kind # "none"
        /\ \E e \in AllArchiveEntries(list) : SlotOf(e.name) = SlotOf(list[p].name)
        /\ \A q \in (p + 1)..Len(list) :
               IsZipName(list[q].name) \/ SlotOf(list[q].name) # SlotOf(list[p].name)}

\* the store holds what applying the files in the fixed order leaves, the
\* application ending at the first file that fails
AppliedInFixedOrder ==
    Core(store) = Core(ingestPlainLoop(zipStart, BatchSequence(SelectedList)))

\* as stated: the order, and the plain file wins in every batch
C21_PlainFileIsFinal ==
    BatchDone =>
        /\ AppliedInFixedOrder
        /\ \A p \in ContestedPlain(SelectedList) : HoldsContentOf(store, SelectedList[p])

\* amended: the order, with the end at the first failure, and the plain
\* file wins in every batch that ends without an error
C21_PlainFileIsFinalUnlessFailed ==
    BatchDone =>
        /\ AppliedInFixedOrder
        /\ loadError.isNull =>
               \A p \in ContestedPlain(SelectedList) : HoldsContentOf(store, SelectedList[p])

\* a batch ended without an error whose plain file stands before the
\* archive in the list and whose slot holds the content of the plain file,
\* not that of the archive entry
C21_Witness ==
    /\ BatchDone
    /\ loadError.isNull
    /\ \E p \in ContestedPlain(SelectedList) :
          /\ \E q \in (p + 1)..Len(SelectedList) : IsZipName(SelectedList[q].name)
          /\ HoldsContentOf(store, SelectedList[p])
          /\ \E e \in AllArchiveEntries(SelectedList) :
                SlotOf(e.name) = SlotOf(SelectedList[p].name) /\ ~HoldsContentOf(store, e)

(***************************************************************************)
(* C23  While a batch is still processing files the loading indicator is   *)
(* not null, also when a second batch was started before the first one     *)
(* finished: the end of one batch does not clear the indicator of another. *)
(***************************************************************************)
\* the batches that still have an archive or a file to read
Processing == {b \in 1..MaxBatches : proc[b].pc \in {"zip", "entry", "normal"}}

C23_LoadingWhileProcessing == Processing # {} => loading # NULL

(***************************************************************************)
(* C28  No two entries of store.episodes denote the same episode number:   *)
(* identifiers that differ only in leading zeros are never both listed.    *)
(***************************************************************************)
C28_OneEntryPerEpisodeNumber ==
    \A p, q \in 1..Len(store.episodes) :
        (AllDigits(store.episodes[p]) /\ AllDigits(store.episodes[q])
         /\ DecimalValue(store.episodes[p]) = DecimalValue(store.episodes[q])) => p = q

(***************************************************************************)
(* The episode selections                                                  *)
(*                                                                         *)
(* React runs the effects of a render before it handles the next event, so *)
(* the handlers act on states in which no effect is due, and one step runs *)
(* all effects that are due.                                               *)
(***************************************************************************)
\* !activeEp
NoActiveEp(ep) == ep.t = "null" \/ (ep.t = "string" /\ ep.s = "")

\* a slip of InitialSelection: the selection is left empty
InitialSelectionEmpty(episodes) == << >>

\* the value init of the effects of compareEps and distCompareEps
InitialSelection(episodes) ==
    LET last == episodes[Len(episodes)]
        prev == episodes[Max(0, Len(episodes) - 2) + 1]
    IN  IF prev # "" /\ prev # last THEN <<prev, last>> ELSE <<last>>

\* the conditions of the three effects
ActiveEpDue == NoActiveEp(activeEp) /\ Len(store.episodes) # 0
CompareEpsDue == Len(store.episodes) # 0 /\ Len(compareEps) = 0
DistCompareEpsDue == Len(store.episodes) # 0 /\ Len(distCompareEps) = 0

Settled == ~ActiveEpDue /\ ~CompareEpsDue /\ ~DistCompareEpsDue

\* prev.includes(ep) ? prev.filter((x) => x !== ep)
\*                   : [...prev, ep].sort((a, b) => safeNumber(a) - safeNumber(b))
toggleEp(prev, ep) ==
    IF ep \in Range(prev) THEN Filter(prev, Range(prev) \ {ep})
    ELSE LET all == Append(prev, ep)
             keyed == [p \in 1..Len(all) |-> [key |-> safeNumber(Str(all[p])), val |-> all[p]]]
             sorted == SortByKey(keyed)
         IN  [p \in 1..Len(sorted) |-> sorted[p].val]

\* the memo epStats
epStats(active, st) ==
    LET rows == IF st.episodeStats.set THEN st.episodeStats.rows ELSE << >>
        hits == {p \in 1..Len(rows) : String(Get(rows[p], "episode_id")) = String(active)}
        first == CHOOSE p \in hits : \A q \in hits : p <= q
    IN  IF NoActiveEp(active) THEN [isNull |-> TRUE]
        ELSE [isNull |-> FALSE,
              byStats |-> IF hits = {} THEN [isNull |-> TRUE] ELSE [isNull |-> FALSE, row |-> rows[first]],
              basic |-> IF ObjHas(st.basicStatsByEp, active.s)
                        THEN [isNull |-> FALSE, obj |-> ObjGet(st.basicStatsByEp, active.s)]
                        ELSE [isNull |-> TRUE]]

\* a file is uploaded and ingested
UploadFile(f) ==
    /\ Settled
    /\ Len(store.loadedFiles) < MaxFiles
    /\ store' = ingestOneFile(store, f)
    /\ UNCHANGED <<loading, loadError, proc, peakVars, topkVars, distVars, zipStart, uiVars, cmpVars>>

\* the user picks an episode in the select of the active episode
SetActiveEp(ep) ==
    /\ Settled
    /\ activeEp' = Str(ep)
    /\ UNCHANGED <<storeVars, peakVars, topkVars, distVars, zipStart, compareEps, distCompareEps, cmpVars>>

toggleCompareEp(ep) ==
    /\ Settled
    /\ compareEps' = toggleEp(compareEps, ep)
    /\ UNCHANGED <<storeVars, peakVars, topkVars, distVars, zipStart, activeEp, distCompareEps, cmpVars>>

toggleDistEp(ep) ==
    /\ Settled
    /\ distCompareEps' = toggleEp(distCompareEps, ep)
    /\ UNCHANGED <<storeVars, peakVars, topkVars, distVars, zipStart, activeEp, compareEps, cmpVars>>

\* the three effects of lines 550-570, each of which is due
RunEffects ==
    /\ ~Settled
    /\ activeEp' = IF ActiveEpDue THEN Str(store.episodes[Len(store.episodes)]) ELSE activeEp
    /\ compareEps' = IF CompareEpsDue THEN InitialSelection(store.episodes) ELSE compareEps
    /\ distCompareEps' = IF DistCompareEpsDue THEN InitialSelection(store.episodes) ELSE distCompareEps
    /\ UNCHANGED <<storeVars, peakVars, topkVars, distVars, zipStart, cmpVars>>

NextUI ==
    \/ \E f \in PlainFiles : UploadFile(f)
    \/ \E ep \in Range(store.episodes) : SetActiveEp(ep)
    \/ \E ep \in Range(store.episodes) : toggleCompareEp(ep)
    \/ \E ep \in Range(store.episodes) : toggleDistEp(ep)
    \/ RunEffects

SpecUI == Init /\ [][NextUI]_vars

(***************************************************************************)
(* C22  Once the effects have settled, the active episode is null or a     *)
(* member of store.episodes.                                               *)
(***************************************************************************)
C22_ActiveEpIsListed ==
    Settled => (activeEp.t = "null" \/ activeEp.s \in Range(store.episodes))

(***************************************************************************)
(* C29  For every episode identifier a row of the scalar-stats table       *)
(* contributes to store.episodes, epStats.byStats is that row while the    *)
(* episode is the active one, whichever of the columns episode_id and      *)
(* episode the row uses.                                                   *)
(***************************************************************************)
\* the identifier the row r contributes, "" for none
ContributedEpisode(r) ==
    String(Coalesce(Get(r, "episode_id"), Coalesce(Get(r, "episode"), Str(""))))

C29_ActiveEpisodeFindsItsRow ==
    \A p \in 1..Len(store.episodeStats.rows) :
        LET r == store.episodeStats.rows[p]
        IN  (ContributedEpisode(r) # "" /\ activeEp = Str(ContributedEpisode(r))) =>
                epStats(activeEp, store).byStats = [isNull |-> FALSE, row |-> r]

(***************************************************************************)
(* C30  While the store lists an episode, an empty curve-comparison or     *)
(* distribution-comparison selection is no stable state: the only step     *)
(* from it sets the empty selection to the last (up to two) episodes of    *)
(* store.episodes, so once the effects have settled both are non-empty.    *)
(***************************************************************************)
\* the last two entries of episodes, or its only one
LastUpToTwo(episodes) ==
    SubSeq(episodes, Max(1, Len(episodes) - 1), Len(episodes))

C30_EmptySelectionReinitialised ==
    [][ (Len(store.episodes) # 0 /\ (compareEps = << >> \/ distCompareEps = << >>)) =>
            /\ store' = store
            /\ compareEps' = IF compareEps = << >> THEN LastUpToTwo(store.episodes) ELSE compareEps
            /\ distCompareEps' = IF distCompareEps = << >> THEN LastUpToTwo(store.episodes)
                                 ELSE distCompareEps ]_vars

\* the user has toggled off the only episode of the curve comparison while
\* the store lists three episodes; the effect is about to run
C30_Witness ==
    /\ Len(store.episodes) = 3
    /\ compareEps = << >>
    /\ distCompareEps # << >>
    /\ activeEp.t = "string"

(***************************************************************************)
(* C24  In a comparison over function tags the list of categories holds no *)
(* key twice, and in every output row the value of each named category is  *)
(* the ratio the table of the episode gives the tag, 0 if it has no row of *)
(* the tag; also when a tag named "other" is among the named categories.   *)
(***************************************************************************)
\* the rows of the selected episode p that carry the tag k
RowsOfTag(p, k) == {q \in 1..Len(InputRows(p)) : DistTag(InputRows(p)[q], "func") = k}

C24_NamedValuesAreInputRatios ==
    (distOut.ran /\ FuncKind) =>
        /\ \A i, j \in 1..Len(distOut.res.keys) :
               distOut.res.keys[i] = distOut.res.keys[j] => i = j
        /\ \A p \in 1..Len(distOut.res.rows) : \A i \in 1..Len(NamedKeys) :
               IF RowsOfTag(p, NamedKeys[i]) = {} THEN RowValue(p, NamedKeys[i]) = 0
               ELSE \E q \in RowsOfTag(p, NamedKeys[i]) :
                        RowValue(p, NamedKeys[i]) = safeNumber(Get(InputRows(p)[q], "ratio"))

(***************************************************************************)
(* C25  In a comparison over function tags a selected episode without rows *)
(* in the needed table, one of the missing list, has no output row that    *)
(* gives a category, other included, a share that is not zero.             *)
(***************************************************************************)
\* distCompareMissing.missingEps, as positions of the selection
MissingEps ==
    {p \in 1..Len(distIn.eps) : Len(DistRows(distIn.tables, distIn.eps[p], DistTableKey(distIn.kind))) = 0}

C25_MissingEpisodeHasNoShare ==
    (distOut.ran /\ FuncKind) =>
        \A p \in MissingEps : \A r \in 1..Len(distOut.res.rows) :
            ObjGet(distOut.res.rows[r], "ep") = Str(distIn.eps[p]) =>
                \A i \in 1..Len(distOut.res.keys) : RowValue(r, distOut.res.keys[i]) = 0

(***************************************************************************)
(* The minute curves, their comparison and the report                      *)
(*                                                                         *)
(* curveMode is "emo", and intervalSeriesKey and compareSeries are         *)
(* "touching", their initial values. The report is modelled by the lines   *)
(* that carry a peak or an interval, in English, with "-" for the dash and *)
(* ", " for the enumeration comma of the source.                           *)
(***************************************************************************)
\* useState initial values of lines 416, 419, 420 and 688
compareSeries == "touching"
intervalSeriesKey == "touching"
intervalWindow == 3
intervalTopK == 3

\* rows.map((r) => ({ ...r, minute: safeNumber(r.minute) }))
WithMinute(rows) ==
    [p \in 1..Len(rows) |-> [rows[p] EXCEPT !.minute = Num(safeNumber(rows[p].minute))]]

\* the memo curveData
curveData(tablesByEp, active) ==
    LET rows == IF NoActiveEp(active) THEN << >>
                ELSE WithMinute(DistRows(tablesByEp, active.s, TABLE_KEYS.DANMU_MIN_EMO))
        sorted == SortByKey([p \in 1..Len(rows) |-> [key |-> rows[p].minute.n, val |-> rows[p]]])
    IN  [p \in 1..Len(sorted) |-> sorted[p].val]

\* the memo intervalsSingle
intervalsSingle(markIntervals, curve) ==
    IF ~markIntervals \/ Len(curve) = 0 \/ intervalSeriesKey = "" THEN << >>
    ELSE topKIntervals(curve, intervalSeriesKey, intervalWindow, intervalTopK)

\* Array.from(minuteSet).sort((a, b) => a - b)
RECURSIVE Ascending(_)
Ascending(S) ==
    IF S = {} THEN << >>
    ELSE LET m == CHOOSE x \in S : \A y \in S : x <= y
         IN  <<m>> \o Ascending(S \ {m})

\* lookup[ep]?.[m] ?? 0: the series value of the last row of minute m
Lookup(rows, m) ==
    LET hits == {p \in 1..Len(rows) : safeNumber(rows[p].minute) = m}
        last == CHOOSE p \in hits : \A q \in hits : q <= p
    IN  IF hits = {} THEN 0 ELSE safeNumber(Get(rows[last], compareSeries))

\* the memo compareCurveCombined
compareCurveCombined(tablesByEp, compareMode, eps) ==
    LET byEp(ep) == WithMinute(DistRows(tablesByEp, ep, TABLE_KEYS.DANMU_MIN_EMO))
        minuteSet == UNION {{byEp(eps[p])[q].minute.n : q \in 1..Len(byEp(eps[p]))} : p \in 1..Len(eps)}
        minutes == Ascending(minuteSet)
        columns == {"minute"} \cup {"ep" \o eps[p] : p \in 1..Len(eps)}
    IN  IF ~compareMode \/ Len(eps) = 0 THEN << >>
        ELSE [i \in 1..Len(minutes) |->
                [k \in columns |->
                    IF k = "minute" THEN Num(minutes[i])
                    ELSE Num(Lookup(byEp(SubSeq(k, 3, Len(k))), minutes[i]))]]

\* the memo comparePeaks; its loop is the loop of computePeak
comparePeaks(compareMode, markPeak, combined, eps) ==
    LET best(ep) == PeakLoop(combined, "ep" \o ep,
                             [negInf |-> TRUE, bestVal |-> 0, isNull |-> TRUE, bestMinute |-> 0])
        found == Filter(eps, {ep \in Range(eps) : ~best(ep).isNull /\ ~best(ep).negInf})
    IN  IF ~compareMode \/ ~markPeak \/ Len(combined) = 0 THEN << >>
        ELSE [p \in 1..Len(found) |->
                [epKey |-> "ep" \o found[p], minute |-> best(found[p]).bestMinute,
                 value |-> best(found[p]).bestVal]]

\* the memo intervalsCompare
RECURSIVE intervalsCompareLoop(_, _, _)
intervalsCompareLoop(combined, eps, out) ==
    IF eps = << >> THEN out
    ELSE intervalsCompareLoop(combined, Tail(eps),
            ObjSet(out, "ep" \o Head(eps),
                   topKIntervals(combined, "ep" \o Head(eps), intervalWindow, intervalTopK)))

intervalsCompare(compareMode, markIntervals, combined, eps) ==
    IF ~compareMode \/ ~markIntervals \/ Len(combined) = 0 THEN << >>
    ELSE intervalsCompareLoop(combined, eps, << >>)

\* ints.slice(0, 3).map((it) => `${it.start}-${it.end}m`).join(", ")
RECURSIVE JoinIntervals(_)
JoinIntervals(ints) ==
    IF ints = << >> THEN ""
    ELSE String(Num(Head(ints).start)) \o "-" \o String(Num(Head(ints).end)) \o "m"
         \o (IF Len(ints) > 1 THEN ", " ELSE "") \o JoinIntervals(Tail(ints))

IntervalText(ints) ==
    LET str == JoinIntervals(SubSeq(ints, 1, Min(3, Len(ints))))
    IN  IF str = "" THEN "--" ELSE str

\* p?.minute ?? "--"
PeakText(peak) == IF peak.isNull THEN "--" ELSE String(Num(peak.minute))

\* the line of cmpSummary of the episode epx
CmpSummaryLine(epx, peaks, intervals) ==
    LET epKey == "ep" \o epx
        hits == {q \in 1..Len(peaks) : peaks[q].epKey = epKey}
        p == IF hits = {} THEN NULL
             ELSE [isNull |-> FALSE, minute |-> peaks[CHOOSE q \in hits : \A r \in hits : q <= r].minute]
        topInts == IF ObjHas(intervals, epKey) THEN ObjGet(intervals, epKey) ELSE << >>
    IN  "- episode " \o epx \o ": peak@" \o PeakText(p) \o "m; top intervals: " \o IntervalText(topInts)

\* generateReportMarkdown: caption3, the sentence on the peak of the quick
\* conclusions, and cmpSummary; the callback reads the memos curveData,
\* intervalsSingle, compareCurveCombined, comparePeaks and intervalsCompare
generateReportMarkdown(curve, ints, compareMode, eps, combined, peaks, intervals) ==
    LET found == IF Len(curve) # 0 /\ intervalSeriesKey # "" THEN computePeak(curve, intervalSeriesKey) ELSE NULL
        peak == IF found = NULL THEN NULL ELSE [isNull |-> FALSE, minute |-> found.minute]
        cmpSummary == IF compareMode /\ Len(combined) # 0
                      THEN [p \in 1..Len(eps) |-> CmpSummaryLine(eps[p], peaks, intervals)]
                      ELSE << >>
    IN  [caption3 |-> IF compareMode THEN "figure 3: minute curves compared (series " \o compareSeries \o ")"
                      ELSE "figure 3: minute curve, peak of " \o intervalSeriesKey \o " @"
                           \o PeakText(peak) \o "m, top intervals: " \o IntervalText(ints),
         conclusion |-> intervalSeriesKey \o " peaks near minute " \o PeakText(peak),
         cmpSummary |-> cmpSummary]

(***************************************************************************)
(* The comparison and the report on bounded stores                         *)
(***************************************************************************)
\* minute curves: one with two equal maxima, one with negative values only,
\* one with a gap between its minutes, one with a missing minute, a missing
\* value and a text
CurveRise ==
    << [minute |-> Num(1), touching |-> Num(1)], [minute |-> Num(2), touching |-> Num(3)],
       [minute |-> Num(3), touching |-> Num(3)], [minute |-> Num(4), touching |-> Num(1)] >>
CurveNeg ==
    << [minute |-> Num(1), touching |-> Num(0 - 2)], [minute |-> Num(2), touching |-> Num(0 - 1)] >>
CurveGap ==
    << [minute |-> Num(5), touching |-> Num(4)], [minute |-> Num(2), touching |-> Num(2)] >>
CurveLoose ==
    << [minute |-> Null, touching |-> Num(2)], [minute |-> Num(1), touching |-> Null],
       [minute |-> Num(3), touching |-> Str("n/a")] >>

\* what store.tablesByEp holds for one episode: nothing, or a minute curve
CurveTableMaps ==
    {[has |-> FALSE, tables |-> << >>]}
    \cup {[has |-> TRUE, tables |-> << [k |-> TABLE_KEYS.DANMU_MIN_EMO, v |-> c] >>] :
            c \in {CurveRise, CurveNeg, CurveGap, CurveLoose}}

CurveStores == {DistTablesByEp(c, MaxDistEps) : c \in [1..MaxDistEps -> CurveTableMaps]}

InitCmp ==
    /\ store = EmptyStore
    /\ loading = NULL
    /\ loadError = NULL
    /\ proc = [b \in 1..MaxBatches |-> IdleProc]
    /\ peakIn = << >>
    /\ peakOut = NotRun
    /\ topkIn = [rows |-> << >>, w |-> 0, k |-> 0]
    /\ topkOut = NotRun
    /\ distIn = NoDistInput
    /\ distOut = NotRun
    /\ zipStart = EmptyStore
    /\ activeEp = Null
    /\ compareEps = << >>
    /\ distCompareEps = << >>
    /\ cmpIn \in [tables : CurveStores, eps : DistSelections,
                  active : {Null} \cup {Str(StringOfEpisode[n]) : n \in 1..MaxDistEps},
                  compareMode : BOOLEAN, markPeak : BOOLEAN, markIntervals : BOOLEAN]
    /\ cmpOut = NotRun

\* the memos are computed in the order of the render, each from the values
\* of the memos before it, and the report is generated from them
RunCmp ==
    /\ ~cmpOut.ran
    /\ \E curve \in {curveData(cmpIn.tables, cmpIn.active)} :
       \E ints \in {intervalsSingle(cmpIn.markIntervals, curve)} :
       \E combined \in {compareCurveCombined(cmpIn.tables, cmpIn.compareMode, cmpIn.eps)} :
       \E peaks \in {comparePeaks(cmpIn.compareMode, cmpIn.markPeak, combined, cmpIn.eps)} :
       \E intervals \in {intervalsCompare(cmpIn.compareMode, cmpIn.markIntervals, combined, cmpIn.eps)} :
           cmpOut' = [ran |-> TRUE,
                      res |-> [combined |-> combined,
                               peaks |-> peaks,
                               report |-> generateReportMarkdown(curve, ints, cmpIn.compareMode, cmpIn.eps,
                                                                 combined, peaks, intervals)]]
    /\ UNCHANGED <<storeVars, peakVars, topkVars, distVars, zipStart, uiVars, cmpIn>>

NextCmp == RunCmp

SpecCmp == InitCmp /\ [][NextCmp]_vars

(***************************************************************************)
(* C26  In compare mode the peak reported for a compared episode is        *)
(* computePeak of the column of the episode in the combined curve: the     *)
(* same minute and value, the first of several maxima, and no peak when    *)
(* the maximum of the column is negative.                                  *)
(***************************************************************************)
\* the peaks comparePeaks reports for the column epKey
ReportedPeaks(epKey) ==
    {[minute |-> cmpOut.res.peaks[q].minute, value |-> cmpOut.res.peaks[q].value] :
        q \in {r \in 1..Len(cmpOut.res.peaks) : cmpOut.res.peaks[r].epKey = epKey}}

C26_PeaksAreComputePeak ==
    (cmpOut.ran /\ cmpIn.compareMode /\ cmpIn.markPeak /\ Len(cmpOut.res.combined) # 0) =>
        \A p \in 1..Len(cmpIn.eps) :
            LET epKey == "ep" \o cmpIn.eps[p]
                peak == computePeak(cmpOut.res.combined, epKey)
            IN  ReportedPeaks(epKey) = IF peak = NULL THEN {} ELSE {peak}

(***************************************************************************)
(* C27  The report does not depend on the switches markPeak and            *)
(* markIntervals: states that differ only in the switches give the same    *)
(* report, for one episode and in compare mode.                            *)
(***************************************************************************)
\* the report of the state of the view with the switches set to mp and mi
\* is the report r
ReportIs(mp, mi, r) ==
    \A curve \in {curveData(cmpIn.tables, cmpIn.active)} :
    \A ints \in {intervalsSingle(mi, curve)} :
    \A combined \in {compareCurveCombined(cmpIn.tables, cmpIn.compareMode, cmpIn.eps)} :
    \A peaks \in {comparePeaks(cmpIn.compareMode, mp, combined, cmpIn.eps)} :
    \A intervals \in {intervalsCompare(cmpIn.compareMode, mi, combined, cmpIn.eps)} :
        generateReportMarkdown(curve, ints, cmpIn.compareMode, cmpIn.eps, combined, peaks, intervals) = r

C27_ReportIgnoresSwitches ==
    cmpOut.ran => \A mp, mi \in BOOLEAN : ReportIs(mp, mi, cmpOut.res.report)

====
